---- MODULE Spec2Model ----
(***************************************************************************)
(* A model of the tracedb/unitdb storage engine: the time-window bucket    *)
(* (sharded in-memory queues, freeze/flush protocol, on-disk window        *)
(* blocks), the sync coordinator, and the topic trie.                      *)
(***************************************************************************)
EXTENDS Integers, Sequences, FiniteSets, TLC

(* ------------------------------ bounds -------------------------------- *)
\* number of shards of the time-window bucket (32 in the program)
nShards == 2
\* number of distinct topic hashes that are put
nTopics == 2
\* window entries per window block
seqsPerWindowBlock == 2
\* the DB sequence counter is capped here
MaxSeq == 3
\* the clock (unix seconds) runs from 0 to MaxNow
MaxNow == 1
\* largest limit of a query
MaxLimit == 3
\* number of faults (I/O errors, crashes) injected in one run
MaxErrors == 1

\* a topic has at most MaxLevels levels before a trailing "..."
MaxLevels == 3
\* number of topics added to the trie
MaxAdds == 2

\* number of keys put to a shard of memdb
nKeys == 2
\* the arena of a shard of memdb holds at most MaxRecords records
MaxRecords == 2
\* the same where one goroutine and the drain loop use the shard
ShrinkRecords == 3

\* the memSize that memdb is opened with, in bytes
memSize == 20

\* number of calls of Append and SignalInitWrite on one WAL writer
MaxCalls == 3

\* number of calls of windowWriter.append in one run
MaxAppends == 3

\* slots of the window blocks that lookup is given on its own
LookupSlots == 3

\* number of buckets of the index that an iterator walks
nBuckets == 2
\* slots of a bucket of the index
entriesPerBucket == 2
\* number of remote nodes of the cluster
nNodes == 3

\* a window block is seqsPerWindowBlock entries of 12 bytes and a 26 byte trailer
blockSize == 12 * seqsPerWindowBlock + 26

Hashes == 1..nTopics
Shards == 0..(nShards - 1)

Min(a, b) == IF a < b THEN a ELSE b

Suffix(s, l) == SubSeq(s, Len(s) - l + 1, Len(s))

\* the shard index of a key (the consistent-hash ring, a black box)
FindBlock(key) == key % nShards

\* no result
NoRes == [op |-> "none"]

(* --------------------------- window entries --------------------------- *)
winEntry(seq, expiresAt) == [seq |-> seq, expiresAt |-> expiresAt]

NoEntry == winEntry(0, 0)

isExpiredZero(e, t) == e.expiresAt <= t

\* winEntry.isExpired at wall-clock second t
isExpired(e, t) == e.expiresAt # 0 /\ e.expiresAt <= t

\* the entries of s that the lookup loops keep, and those they hand to addExpiry
KeepLive(s, t) == SelectSeq(s, LAMBDA e : ~isExpired(e, t))

HandExpired(s, t) == SelectSeq(s, LAMBDA e : isExpired(e, t))

RECURSIVE ZeroEntries(_)
\* n zero window entries
ZeroEntries(n) == IF n = 0 THEN <<>> ELSE Append(ZeroEntries(n - 1), NoEntry)

\* the zero value of winBlock
ZeroBlock ==
  [topicHash |-> 0, entries |-> ZeroEntries(seqsPerWindowBlock),
   next |-> 0, cutoff |-> 0, entryIdx |-> 0, dirty |-> FALSE, leased |-> FALSE]

CutoffNever(w, cutoff) == FALSE

\* winBlock.Cutoff
Cutoff(w, cutoff) == w.cutoff # 0 /\ w.cutoff < cutoff

winBlockOffset(idx) == blockSize * idx

\* windowHandle.read: the block stored at off, or an error past the end of file
ReadOk(file, off) == (off \div blockSize) \in DOMAIN file

ReadBlock(file, off) == file[off \div blockSize]

(* ------------------------------ ilookup -------------------------------- *)
\* timeWindowBucket.ilookup on shard wb at second t
ilookup(wb, topicHash, limit, t) ==
  LET fz == wb.friezedEntries[topicHash]
      l1 == IF Len(fz) > 0 THEN Min(limit, Len(fz)) ELSE 0
      s1 == Suffix(fz, l1)
      expiryCount == Len(HandExpired(s1, t))
      en == wb.entries[topicHash]
      l2 == Min(limit + expiryCount - l1, Len(en))
      s2 == IF Len(en) > 0 THEN Suffix(en, l2) ELSE <<>>
  IN  [winEntries |-> KeepLive(s1, t) \o KeepLive(s2, t),
       expired |-> HandExpired(s1, t) \o HandExpired(s2, t),
       panic |-> FALSE]

(* ------------------------------- lookup -------------------------------- *)
\* the tail of the callback of lookup: all live entries of the block
lookupAll(b, cutoff, acc, limit, t) ==
  LET es == SubSeq(b.entries, 1, b.entryIdx)
  IN  [acc |-> [acc EXCEPT !.winEntries = @ \o KeepLive(es, t),
                           !.expired = @ \o HandExpired(es, t)],
       limit |-> limit,
       stop |-> Cutoff(b, cutoff)]

\* the callback of lookup on one block; limit is the captured, mutable limit
lookupBlock(b, topicHash, cutoff, acc, limit, t) ==
  IF b.topicHash # topicHash
  THEN [acc |-> acc, limit |-> limit, stop |-> TRUE]
  ELSE IF Len(acc.winEntries) > limit - b.entryIdx
       THEN LET limit2 == limit - Len(acc.winEntries)
                lo == (b.entryIdx - (limit2 % 65536)) % 65536
            IN  IF lo > b.entryIdx
                THEN [acc |-> [acc EXCEPT !.panic = TRUE], limit |-> limit2,
                      stop |-> TRUE]
                ELSE LET es == SubSeq(b.entries, lo + 1, b.entryIdx)
                         acc2 == [acc EXCEPT
                                    !.winEntries = @ \o KeepLive(es, t),
                                    !.expired = @ \o HandExpired(es, t)]
                     IN  IF Len(acc2.winEntries) >= limit2
                         THEN [acc |-> acc2, limit |-> limit2, stop |-> TRUE]
                         ELSE lookupAll(b, cutoff, acc2, limit2, t)
       ELSE lookupAll(b, cutoff, acc, limit, t)

RECURSIVE lookupNext(_, _, _, _, _, _, _)
\* the closure next of lookup: follows the chain of blocks from off
lookupNext(file, off, topicHash, cutoff, acc, limit, t) ==
  IF ~ReadOk(file, off)
  THEN acc
  ELSE LET b == ReadBlock(file, off)
           r == lookupBlock(b, topicHash, cutoff, acc, limit, t)
       IN  IF r.stop \/ b.next = 0
           THEN r.acc
           ELSE lookupNext(file, b.next, topicHash, cutoff, r.acc, r.limit, t)

\* timeWindowBucket.lookup
lookup(wb, file, topicHash, off, cutoff, limit, t) ==
  LET acc == ilookup(wb, topicHash, limit, t)
  IN  IF Len(acc.winEntries) >= limit
      THEN acc
      ELSE lookupNext(file, off, topicHash, cutoff, acc, limit, t)

(* ---------------------------- windowWriter ----------------------------- *)
\* newWindowWriter: an empty block cache and leasing map over the bucket
newWindowWriter(windowIdx) ==
  [winBlocks |-> <<>>, leasing |-> <<>>, windowIdx |-> windowIdx]

\* m[k] = v for a map m held as a function
MapPut(m, k, v) == (k :> v) @@ m

sealedOffsetNext(winIdx) == blockSize * (winIdx + 1)

\* the next of a fresh block: the offset of the full block at winIdx
sealedOffset(winIdx) == blockSize * winIdx

recordExistsNever(w, we) == FALSE

\* the scan of the slots of w for the seq of we: "record exist in db"
recordExists(w, we) == \E i \in 1..seqsPerWindowBlock : w.entries[i].seq = we.seq

RECURSIVE appendEntries(_, _, _)
\* the loop of windowWriter.append over wEntries; st holds w, winIdx and the writer
appendEntries(st, wEntries, t) ==
  IF wEntries = <<>>
  THEN st
  ELSE LET we == Head(wEntries)
           exists == recordExists(st.w, we)
           st1 == IF st.w.entryIdx = seqsPerWindowBlock
                  THEN [st EXCEPT
                          !.winBlocks = MapPut(@, st.winIdx, [st.w EXCEPT !.cutoff = t]),
                          !.windowIdx = @ + 1,
                          !.winIdx = st.windowIdx + 1,
                          !.w = [ZeroBlock EXCEPT !.topicHash = st.w.topicHash,
                                                  !.next = sealedOffset(st.winIdx)]]
                  ELSE st
           st2 == IF st1.w.leased
                  THEN [st1 EXCEPT !.leasing =
                          MapPut(@, st1.winIdx,
                                 (IF st1.winIdx \in DOMAIN st1.leasing
                                  THEN st1.leasing[st1.winIdx] ELSE <<>>)
                                 \o <<we.seq>>)]
                  ELSE st1
           st3 == [st2 EXCEPT
                     !.w = [@ EXCEPT !.entries[st2.w.entryIdx + 1] =
                                         winEntry(we.seq, we.expiresAt),
                                     !.dirty = TRUE,
                                     !.entryIdx = @ + 1]]
       IN  IF we.seq = 0 \/ exists
           THEN appendEntries(st, Tail(wEntries), t)
           ELSE appendEntries(st3, Tail(wEntries), t)

\* windowWriter.append at second t; file is the window file
append(wr, file, topicHash, off, wEntries, t) ==
  LET windowIdx1 == IF off = 0 THEN wr.windowIdx + 1 ELSE wr.windowIdx
      winIdx == IF off = 0 THEN windowIdx1 ELSE off \div blockSize
      w0 == IF winIdx \in DOMAIN wr.winBlocks
            THEN wr.winBlocks[winIdx]
            ELSE IF off > 0 /\ winIdx <= windowIdx1
                 THEN [(IF ReadOk(file, off) THEN ReadBlock(file, off)
                                              ELSE ZeroBlock)
                       EXCEPT !.leased = TRUE]
                 ELSE ZeroBlock
      st == appendEntries([w |-> [w0 EXCEPT !.topicHash = topicHash],
                           winIdx |-> winIdx, winBlocks |-> wr.winBlocks,
                           leasing |-> wr.leasing, windowIdx |-> windowIdx1],
                          wEntries, t)
  IN  [writer |-> [winBlocks |-> MapPut(st.winBlocks, st.winIdx, st.w),
                   leasing |-> st.leasing, windowIdx |-> st.windowIdx],
       newOff |-> blockSize * st.winIdx,
       \* the only error of append is a failed read; the result of validation
       \* is dropped
       err |-> FALSE]

\* what MarshalBinary persists of a block: the flags dirty and leased are dropped
Persisted(w) == [w EXCEPT !.dirty = FALSE, !.leased = FALSE]

\* windowWriter.write: every dirty block of the cache goes to the file
write(wr, file) ==
  LET dirtyIdx == {b \in DOMAIN wr.winBlocks : wr.winBlocks[b].dirty}
      top == IF dirtyIdx = {} THEN -1
             ELSE CHOOSE b \in dirtyIdx : \A c \in dirtyIdx : c <= b
      dom == (DOMAIN file) \cup 0..top
  IN  [writer |-> [wr EXCEPT !.winBlocks =
                     [b \in DOMAIN wr.winBlocks |->
                        [wr.winBlocks[b] EXCEPT !.dirty = FALSE]]],
       file |-> [b \in dom |->
                   IF b \in dirtyIdx THEN Persisted(wr.winBlocks[b])
                   ELSE IF b \in DOMAIN file THEN file[b]
                   ELSE ZeroBlock]]

\* the first loop of windowWriter.write: the leased dirty blocks go to the file
writeLeased(wr, file) ==
  LET idx == {b \in DOMAIN wr.winBlocks :
                wr.winBlocks[b].leased /\ wr.winBlocks[b].dirty}
  IN  [writer |-> [wr EXCEPT !.winBlocks =
                     [b \in DOMAIN wr.winBlocks |->
                        IF b \in idx THEN [wr.winBlocks[b] EXCEPT !.dirty = FALSE]
                        ELSE wr.winBlocks[b]]],
       file |-> [b \in DOMAIN file \cup idx |->
                   IF b \in idx THEN Persisted(wr.winBlocks[b]) ELSE file[b]]]

\* windowWriter.del: reads the block bIdx into a handle of its own, takes seq
\* out of that handle and returns; the handle is not written to the file
del(file, seq, bIdx) ==
  [err |-> ~ReadOk(file, blockSize * bIdx), file |-> file]

RECURSIVE delSeqs(_, _, _)
\* the inner loop of rollback over the seqs leased in block bIdx
delSeqs(file, seqs, bIdx) ==
  IF seqs = <<>> THEN [err |-> FALSE, file |-> file]
  ELSE LET d == del(file, Head(seqs), bIdx)
       IN  IF d.err THEN d ELSE delSeqs(d.file, Tail(seqs), bIdx)

RECURSIVE rollbackBlocks(_, _, _)
\* windowWriter.rollback over the blocks todo of the leasing map
rollbackBlocks(leasing, file, todo) ==
  IF todo = {} THEN [err |-> FALSE, file |-> file]
  ELSE LET bIdx == CHOOSE b \in todo : TRUE
           d == delSeqs(file, leasing[bIdx], bIdx)
       IN  IF d.err THEN d ELSE rollbackBlocks(leasing, d.file, todo \ {bIdx})

rollback(wr, file) == rollbackBlocks(wr.leasing, file, DOMAIN wr.leasing)

\* timeWindow.sync as the sync coordinator calls it: append under a fresh writer,
\* then write the window blocks
timeWindowSync(windowIdx, file, topicHash, off, wEntries, t) ==
  LET a == append(newWindowWriter(windowIdx), file, topicHash, off, wEntries, t)
      w == write(a.writer, file)
  IN  [windowIdx |-> a.writer.windowIdx, file |-> w.file, newOff |-> a.newOff]

(* ---------------------------- binary codecs ---------------------------- *)
\* size of the log info record of the WAL
logHeaderSize == 32

\* size of the header of a WAL file
headerSize == 70

RECURSIVE PutUint(_, _)
\* binary.LittleEndian.PutUint16/32/64 of v >= 0: the n low bytes of v, lowest first
PutUint(n, v) ==
  IF n = 0 THEN <<>> ELSE <<v % 256>> \o PutUint(n - 1, v \div 256)

RECURSIVE Complement(_)
\* every byte of b inverted
Complement(b) ==
  IF b = <<>> THEN <<>> ELSE <<255 - Head(b)>> \o Complement(Tail(b))

\* PutUint64 of uint64(v) for an int64 v: the two's complement of a negative v
PutInt64(v) ==
  IF v >= 0 THEN PutUint(8, v) ELSE Complement(PutUint(8, -v - 1))

RECURSIVE Slice(_, _, _)
\* data[lo:hi]
Slice(data, lo, hi) ==
  IF lo >= hi THEN <<>> ELSE <<data[lo + 1]>> \o Slice(data, lo + 1, hi)

RECURSIVE UintShort(_, _, _)
UintShort(data, off, n) ==
  IF n <= 1 THEN 0 ELSE data[off + 1] + 256 * UintShort(data, off + 1, n - 1)

RECURSIVE Uint(_, _, _)
\* binary.LittleEndian.Uint16/32/64 of data[off : off+n]
Uint(data, off, n) ==
  IF n = 0 THEN 0 ELSE data[off + 1] + 256 * Uint(data, off + 1, n - 1)

\* int64(binary.LittleEndian.Uint64(data[off : off+8]))
Int64(data, off) ==
  LET b == Slice(data, off, off + 8)
  IN  IF b[8] >= 128 THEN -Uint(Complement(b), 0, 8) - 1 ELSE Uint(b, 0, 8)

RECURSIVE Zeros(_)
\* make([]byte, n)
Zeros(n) == IF n <= 0 THEN <<>> ELSE <<0>> \o Zeros(n - 1)

\* buf with data copied to its start, as the Put calls on a fresh buffer leave it
Fill(n, data) == data \o Zeros(n - Len(data))

RECURSIVE winBlockMarshalEntries(_, _)
\* the loop of winBlock.MarshalBinary from entry i on: 12 bytes an entry
winBlockMarshalEntries(entries, i) ==
  IF i = seqsPerWindowBlock THEN <<>>
  ELSE PutUint(8, entries[i + 1].seq) \o PutUint(4, entries[i + 1].expiresAt)
       \o winBlockMarshalEntries(entries, i + 1)

\* winBlock.MarshalBinary
winBlockMarshalBinary(w) ==
  Fill(blockSize,
       winBlockMarshalEntries(w.entries, 0) \o PutInt64(w.cutoff)
       \o PutUint(8, w.topicHash) \o PutInt64(w.next) \o PutUint(2, w.entryIdx))

RECURSIVE winBlockUnmarshalEntries(_, _)
\* the loop of winBlock.UnmarshalBinary from entry i on
winBlockUnmarshalEntries(data, i) ==
  IF i = seqsPerWindowBlock THEN <<>>
  ELSE <<winEntry(Uint(data, 12 * i, 8), Uint(data, 12 * i + 8, 4))>>
       \o winBlockUnmarshalEntries(data, i + 1)

\* winBlock.UnmarshalBinary on the receiver w
winBlockUnmarshalBinary(w, data) ==
  LET t == 12 * seqsPerWindowBlock
  IN  [w EXCEPT !.entries = winBlockUnmarshalEntries(data, 0),
                !.cutoff = Int64(data, t),
                !.topicHash = Uint(data, t + 8, 8),
                !.next = Int64(data, t + 16),
                !.entryIdx = Uint(data, t + 24, 2)]

\* the zero value of logInfo
ZeroLogInfo ==
  [version |-> 0, status |-> 0, entryCount |-> 0, seq |-> 0, size |-> 0,
   offset |-> 0]

\* logInfo.MarshalBinary
logInfoMarshalBinary(l) ==
  Fill(logHeaderSize,
       PutUint(2, l.version) \o PutUint(2, l.status) \o PutUint(4, l.entryCount)
       \o PutUint(8, l.seq) \o PutInt64(l.size) \o PutInt64(l.offset))

\* logInfo.UnmarshalBinary on the receiver l
logInfoUnmarshalBinary(l, data) ==
  [l EXCEPT !.version = Uint(data, 0, 2),
            !.status = Uint(data, 2, 2),
            !.entryCount = Uint(data, 4, 4),
            !.seq = Uint(data, 8, 8),
            !.size = Int64(data, 16),
            !.offset = Int64(data, 24)]

\* the zero value of a free block and of the header of a WAL file
ZeroFreeBlock == [size |-> 0, offset |-> 0]

ZeroHeader ==
  [signature |-> Zeros(8), version |-> 0, seq |-> 0,
   fb |-> <<ZeroFreeBlock, ZeroFreeBlock, ZeroFreeBlock>>]

\* header.MarshalBinary
headerMarshalBinary(h) ==
  Fill(headerSize,
       Slice(h.signature, 0, 8) \o PutUint(4, h.version) \o PutUint(8, h.seq)
       \o PutInt64(h.fb[1].size) \o PutInt64(h.fb[1].offset)
       \o PutInt64(h.fb[2].size) \o PutInt64(h.fb[2].offset)
       \o PutInt64(h.fb[3].size) \o PutInt64(h.fb[3].offset))

\* header.UnmarshalBinary on the receiver h
headerUnmarshalBinary(h, data) ==
  [h EXCEPT !.signature = Slice(data, 0, 8),
            !.version = Uint(data, 8, 4),
            !.seq = Uint(data, 12, 8),
            !.fb = <<[size |-> Int64(data, 20), offset |-> Int64(data, 28)],
                     [size |-> Int64(data, 36), offset |-> Int64(data, 44)],
                     [size |-> Int64(data, 52), offset |-> Int64(data, 60)]>>]

(* ------------------------------- memdb --------------------------------- *)
\* the goroutines that call the methods of memdb; one of them may be the shrinker
MemProcs == {"g1", "g2"}

NoProc == "none"

MemKeys == 1..nKeys

\* the payloads that are set
MemData == {<<>>, <<7>>}

\* a shard of the block cache: the arena, freeOffset, the map and the RWMutex
newMemCache ==
  [data |-> <<>>, freeOffset |-> 0, m |-> <<>>, readers |-> {}, writer |-> NoProc]

\* a returned ([]byte, error)
Bytes(b) == [nil |-> FALSE, bytes |-> b, err |-> "nil"]

Nil(err) == [nil |-> TRUE, bytes |-> <<>>, err |-> err]

\* dataTable.readRaw: n bytes of the arena at off
readRaw(data, off, n) ==
  IF off >= 0 /\ n >= 0 /\ off + n <= Len(data)
  THEN Bytes(Slice(data, off, off + n)) ELSE Nil("EOF")

RECURSIVE Records(_, _)
\* the number of records of the arena from off on
Records(data, off) ==
  IF off + 4 > Len(data) THEN 0
  ELSE 1 + Records(data, off + Uint(data, off, 4))

\* DB.Get on the shard c
memGet(c, k) ==
  LET ok == k \in DOMAIN c.m
      off == IF ok THEN c.m[k] ELSE 0
  IN  IF off = -1 THEN Nil("entry deleted")
      ELSE IF ~ok THEN Nil("nil")
      ELSE LET scratch == readRaw(c.data, off, 4)
           IN  IF scratch.err # "nil" THEN Nil(scratch.err)
               ELSE LET d == readRaw(c.data, off, Uint(scratch.bytes, 0, 4))
                    IN  IF d.err # "nil" THEN Nil(d.err)
                        ELSE Bytes(Slice(d.bytes, 4, Len(d.bytes)))

memRemoveDelete(c, k) ==
  [c EXCEPT !.m = [x \in DOMAIN c.m \ {k} |-> c.m[x]]]

\* DB.Remove on the shard c
memRemove(c, k) ==
  IF k \in DOMAIN c.m THEN [c EXCEPT !.m[k] = -1] ELSE c

\* DB.Set on the shard c: allocate at the end of the arena, write the length and
\* the data, store the offset
memSet(c, k, d) ==
  LET off == Len(c.data)
  IN  [c EXCEPT !.data = @ \o PutUint(4, Len(d) + 4) \o d,
                !.m = MapPut(@, k, off)]

\* a Free that takes the offset of every key that is present
memFreeAlways(c, k) ==
  IF k \in DOMAIN c.m /\ c.m[k] > 0 THEN [c EXCEPT !.freeOffset = c.m[k]] ELSE c

\* DB.Free on the shard c; the arena size is the bytes allocated
memFree(c, k) ==
  IF c.freeOffset > 0 \/ k \notin DOMAIN c.m THEN c
  ELSE LET off == c.m[k]
       IN  IF /\ c.freeOffset = 0 \/ c.freeOffset < off
              /\ 100 * off > 33 * Len(c.data)
           THEN [c EXCEPT !.freeOffset = off] ELSE c

\* a shrink that truncates the arena and leaves the offsets of the map as they were
shrinkKeepOffsets(c) ==
  LET keep == {k \in DOMAIN c.m : c.m[k] >= c.freeOffset}
  IN  [c EXCEPT !.data = IF c.freeOffset > 0
                         THEN Slice(@, c.freeOffset, Len(@)) ELSE @,
                !.m = [k \in keep |-> c.m[k]],
                !.freeOffset = 0]

\* the body of the loop of DB.shrinkDataTable on the shard c
shrinkDataTable(c) ==
  LET keep == {k \in DOMAIN c.m : c.m[k] >= c.freeOffset}
  IN  [c EXCEPT !.data = IF c.freeOffset > 0
                         THEN Slice(@, c.freeOffset, Len(@)) ELSE @,
                !.m = [k \in keep |-> c.m[k] - c.freeOffset],
                !.freeOffset = 0]

\* memdb.Open(size): the fields of the DB that Open sets; targetSize is not
\* among them and keeps its zero value
memdbOpen(size) == [targetSize |-> 0, blockCache |-> newMemCache]

\* the test of the drain loop: float64(size) > float64(targetSize) * 0.7
aboveTarget(size, targetSize) == 10 * size > 7 * targetSize

\* the entries whose record is in the shard: seq counts the Puts, window holds
\* the seqs that wait in the time window, todo the snapshot that Sync works
\* through, cur the seq that Sync has read and is flushing, flushed the seqs
\* that are in the index and data files, lost the seqs that Sync found no
\* record for
newSyncMem ==
  [seq |-> 0, window |-> {}, todo |-> {}, cur |-> 0, flushed |-> {}, lost |-> {}]

\* what memdb.Open leaves behind besides the shards: the goroutine of drain,
\* started and not yet run, the ticker with no tick in its channel, closeC open,
\* closeW at zero, the data tables open; close is where the call of Close is,
\* late is set when shrinkDataTable runs after Close has returned
memdbStart ==
  [drain |-> "started", tick |-> FALSE, closeC |-> FALSE, closeW |-> 0,
   tables |-> "open", close |-> "idle", late |-> FALSE]

\* the methods that take the exclusive lock of the shard
TakesLock == {"Set", "Free", "shrink"}

\* the methods that write the map or freeOffset of the shard
WritesShard == {"Set", "Remove", "Free", "shrink"}

\* the calls of the methods of memdb on one shard
MemCalls ==
  {[op |-> "Set", key |-> k, data |-> d] : k \in MemKeys, d \in MemData}
  \cup {[op |-> o, key |-> k, data |-> <<>>] :
          o \in {"Get", "Remove", "Free"}, k \in MemKeys}
  \cup {[op |-> o, key |-> 0, data |-> <<>>] :
          o \in {"Keys", "Count", "Size", "shrink"}}

\* a goroutine outside memdb
IdleMem == [pc |-> "idle", call |-> [op |-> "none"], raced |-> FALSE, ret |-> NoRes]

(* ---------------------------- ItemIterator ----------------------------- *)
\* a slot of a bucket: id 0 stands for kvOffset == 0, another id for the entry
\* stored there
Slot(id, expired) == [id |-> id, expired |-> expired]

\* the buckets with index b and its first n slots filled
BucketsAt(b) ==
  {[i \in 1..entriesPerBucket |->
      IF i <= n THEN Slot(b * entriesPerBucket + i, i \in ex) ELSE Slot(0, FALSE)] :
     n \in 0..entriesPerBucket, ex \in SUBSET (1..entriesPerBucket)}

\* no read fails
NoFail == <<-1, 0>>

RECURSIVE scanBucket(_, _, _, _)
\* the callback of Next and First on a bucket, from slot i on: it stops at an
\* empty slot, skips an expired entry, returns the error of readKeyValue (the
\* read of slot fail), and appends every other entry to the queue
scanBucket(entries, i, queue, fail) ==
  IF i > entriesPerBucket THEN [queue |-> queue, err |-> FALSE]
  ELSE IF entries[i].id = 0 THEN [queue |-> queue, err |-> FALSE]
  ELSE IF fail = i THEN [queue |-> queue, err |-> TRUE]
  ELSE IF entries[i].expired THEN scanBucket(entries, i + 1, queue, fail)
  ELSE scanBucket(entries, i + 1, Append(queue, entries[i].id), fail)

RECURSIVE fillQueue(_, _)
\* the loop 'for it.nextBucketIdx < it.db.nBuckets': it returns on an error with
\* nextBucketIdx as it was and the queue as the callback left it, and it breaks
\* after the first bucket that leaves the queue non-empty
fillQueue(s, fail) ==
  IF s.nextBucketIdx >= nBuckets THEN [it |-> s, err |-> FALSE]
  ELSE LET r == scanBucket(s.buckets[s.nextBucketIdx + 1], 1, s.queue,
                           IF fail[1] = s.nextBucketIdx THEN fail[2] ELSE 0)
       IN  IF r.err THEN [it |-> [s EXCEPT !.queue = r.queue], err |-> TRUE]
           ELSE LET s1 == [s EXCEPT !.queue = r.queue, !.nextBucketIdx = @ + 1]
                IN  IF s1.queue # <<>> THEN [it |-> s1, err |-> FALSE]
                    ELSE fillQueue(s1, fail)

\* the end of Next and First: the head of the queue becomes the item
popQueue(s) ==
  IF s.queue # <<>> THEN [s EXCEPT !.item = Head(s.queue), !.queue = Tail(s.queue)]
  ELSE s

\* ItemIterator.Next; item 0 stands for nil
itNext(s, fail) ==
  LET s0 == [s EXCEPT !.item = 0]
  IN  IF s0.queue # <<>> THEN popQueue(s0)
      ELSE LET r == fillQueue(s0, fail)
           IN  IF r.err THEN r.it ELSE popQueue(r.it)

\* ItemIterator.First
itFirst(s, fail) ==
  IF s.nextBucketIdx >= 1 THEN s
  ELSE LET r == fillQueue(s, fail)
       IN  IF r.err THEN r.it ELSE popQueue(r.it)

\* ItemIterator.Valid
itValid(s) == s.queue # <<>> \/ s.item # 0

\* a new iterator over the buckets, the reads that failed so far, the last call,
\* and what Item returned after each call that left the iterator valid
newIterator(buckets) ==
  [buckets |-> buckets, nextBucketIdx |-> 0, item |-> 0, queue |-> <<>>,
   errs |-> 0, op |-> "new", seen |-> <<>>]

IterInputs ==
  {newIterator(<<b0, b1>>) : b0 \in BucketsAt(0), b1 \in BucketsAt(1)}

(* ------------------------------ cluster -------------------------------- *)
\* the names of the remote nodes, and the name of this node
ClusterNodes == 1..nNodes

thisNodeName == 0

\* the cluster and one connection: the node that the ring gives for the contract
\* of the connection, c.nodes, conn.nodes, and, once the session is gone, the
\* nodes that were sent the request with ConnGone and the nodes that could be
\* reached
newCluster ==
  [ring |-> thisNodeName, nodes |-> ClusterNodes, connNodes |-> {}, gone |-> FALSE,
   informed |-> {}, up |-> {}]

\* Cluster.connGone: the loop over conn.nodes returns the result of the forward
\* to the first node that is in c.nodes; first is the name that the range over
\* the map yields first, up the nodes whose call succeeds
connGone(c, first, up) ==
  IF first \in c.nodes
  THEN [c EXCEPT !.gone = TRUE, !.up = up,
                 !.informed = IF first \in up THEN {first} ELSE {}]
  ELSE [c EXCEPT !.gone = TRUE, !.up = up]

(* ----------------------------- WAL writer ------------------------------ *)
\* the records appended to a writer; the empty one is skipped by append
LogData == {<<>>, <<1>>}

\* WAL.NewWriter: the fields of the Writer, the goroutines it has started and
\* not yet run (goAppend, goWrite), the goroutines that are inside append with
\* their data, position and the value they have read (run), and the calls of
\* wal.put so far
NewWriter ==
  [writeComplete |-> FALSE, releaseComplete |-> FALSE, count |-> 0,
   logSize |-> 0, buffer |-> <<>>, goAppend |-> <<>>, goWrite |-> 0,
   run |-> <<>>, puts |-> 0, calls |-> 0]

\* the test that opens Append and SignalInitWrite
writtenOrReleased(w) == w.writeComplete \/ w.releaseComplete

\* Writer.append: a frame of the length and the data goes to the buffer
writerAppend(w, d) ==
  IF Len(d) = 0 THEN w
  ELSE [w EXCEPT !.count = @ + 1,
                 !.logSize = @ + Len(d) + 4,
                 !.buffer = @ \o PutUint(4, Len(d) + 4) \o d]

\* Writer.writeLog under the mutex of the WAL; ok is the outcome of wal.put
writeLog(w, ok) ==
  IF w.logSize = 0 THEN w
  ELSE IF ~ok THEN [w EXCEPT !.puts = @ + 1]
  ELSE [w EXCEPT !.puts = @ + 1, !.writeComplete = TRUE]

(* -------------------------------- trie --------------------------------- *)
\* the literal levels of the topics
Literals == {"a", "b"}

\* message.Wildcard: the query of the part that the level "..." parses to
Wildcard == "..."

RECURSIVE LevelsOfLen(_)
\* the topics of n levels: a literal, then literals and "*"
LevelsOfLen(n) ==
  IF n = 1 THEN {<<l>> : l \in Literals}
  ELSE {Append(t, l) : t \in LevelsOfLen(n - 1), l \in Literals \cup {"*"}}

\* the topics: up to MaxLevels levels, with or without a trailing "..."
Topics ==
  LET plain == UNION {LevelsOfLen(n) : n \in 1..MaxLevels}
  IN  plain \cup {Append(t, "...") : t \in plain} \cup {<<"...">>}

\* the topics without a wildcard
ConcreteTopics == {t \in Topics : \A k \in 1..Len(t) : t[k] \in Literals}

\* the key of a part
key(query, wildchars) == [query |-> query, wildchars |-> wildchars]

RECURSIVE ParseParts(_, _)
\* the parts of a topic: a literal starts a part, every "*" that follows it adds
\* one to the wildchars of the part, "..." is the part Wildcard
ParseParts(levels, parts) ==
  IF levels = <<>> THEN parts
  ELSE IF Head(levels) = "*"
       THEN ParseParts(Tail(levels),
                       [parts EXCEPT ![Len(parts)].wildchars = @ + 1])
       ELSE ParseParts(Tail(levels), Append(parts, key(Head(levels), 0)))

\* the parsed topic: its hash (the topic itself stands for its hash), its
\* parts, its depth (the levels before "...") and its type
Parse(topic) ==
  [hash |-> topic,
   parts |-> ParseParts(topic, <<>>),
   depth |-> Cardinality({k \in 1..Len(topic) : topic[k] # "..."}),
   topicType |-> IF topic \in ConcreteTopics THEN "TopicStatic"
                 ELSE "TopicWildcard"]

\* newPartTrie: the root, which has the zero key and no topics
newPartTrie ==
  [nodes |-> (<<>> :> [depth |-> 0, topics |-> <<>>]), summary |-> <<>>]

\* topics.addUnique
addUnique(top, value) ==
  IF \E i \in 1..Len(top) : top[i].hash = value.hash
  THEN [i \in 1..Len(top) |->
          IF top[i].hash = value.hash
          THEN [top[i] EXCEPT !.offset = value.offset] ELSE top[i]]
  ELSE Append(top, value)

\* the prefix of n elements of a sequence
Prefix(s, n) == [k \in 1..n |-> s[k]]

trieAddPartsReplace(t, topic, parts, depth) ==
  LET path == Prefix(parts, Len(parts))
      new == {Prefix(parts, n) : n \in 0..Len(parts)} \ DOMAIN t.nodes
      nodes1 == [p \in DOMAIN t.nodes \cup new |->
                   IF p \in DOMAIN t.nodes THEN t.nodes[p]
                   ELSE [depth |-> 0, topics |-> <<>>]]
  IN  [nodes |-> [nodes1 EXCEPT ![path].topics = addUnique(@, topic),
                                ![path].depth = depth],
       summary |-> MapPut(t.summary, topic.hash, path)]

\* trie.add; a node is named by the keys on its path from the root
trieAddParts(t, topic, parts, depth) ==
  IF topic.hash \in DOMAIN t.summary
  THEN t
  ELSE LET path == Prefix(parts, Len(parts))
           new == {Prefix(parts, n) : n \in 0..Len(parts)} \ DOMAIN t.nodes
           nodes1 == [p \in DOMAIN t.nodes \cup new |->
                        IF p \in DOMAIN t.nodes THEN t.nodes[p]
                        ELSE [depth |-> 0, topics |-> <<>>]]
       IN  [nodes |-> [nodes1 EXCEPT
                         ![path].topics = addUnique(@, topic),
                         ![path].depth = depth],
            summary |-> MapPut(t.summary, topic.hash, path)]

\* the offsets of the tuples of hash h in the topics list top, in order
OffsetsOf(top, h) ==
  LET at == {i \in 1..Len(top) : top[i].hash = h}
  IN  IF at = {} THEN <<>>
      ELSE <<top[CHOOSE i \in at : \A j \in at : i <= j].offset>>

\* trie.getOffset: the offset of the first tuple of the hash in its node
trieGetOffset(t, topicHash) ==
  IF topicHash \in DOMAIN t.summary
  THEN LET offs == OffsetsOf(t.nodes[t.summary[topicHash]].topics, topicHash)
       IN  IF offs # <<>> THEN [off |-> offs[1], ok |-> TRUE]
           ELSE [off |-> 0, ok |-> TRUE]
  ELSE [off |-> 0, ok |-> FALSE]

trieSetOffsetAppend(t, top) ==
  IF top.hash \in DOMAIN t.summary
  THEN [t |-> [t EXCEPT !.nodes[t.summary[top.hash]].topics = Append(@, top)],
        ok |-> TRUE]
  ELSE [t |-> t, ok |-> FALSE]

\* trie.setOffset
trieSetOffset(t, top) ==
  IF top.hash \in DOMAIN t.summary
  THEN [t |-> [t EXCEPT !.nodes[t.summary[top.hash]].topics = addUnique(@, top)],
        ok |-> TRUE]
  ELSE [t |-> t, ok |-> FALSE]

\* the children of the node at path curr
children(t, curr) ==
  {c \in DOMAIN t.nodes :
     Len(c) = Len(curr) + 1 /\ Prefix(c, Len(curr)) = Prefix(curr, Len(curr))}

\* the query from its n-th part on
From(query, n) == [k \in 1..(Len(query) - n + 1) |-> query[n + k - 1]]

RECURSIVE trieIlookup(_, _, _, _, _)
\* trie.ilookup: the topics collected from the node at path curr
trieIlookup(t, query, depth, topicType, curr) ==
  LET node == t.nodes[curr]
      here == IF \/ node.depth = depth
                 \/ /\ topicType = "TopicStatic"
                    /\ curr # <<>>
                    /\ curr[Len(curr)].query = Wildcard
              THEN {node.topics[i] : i \in 1..Len(node.topics)} ELSE {}
      q == query[1]
      below(c) ==
        LET k == c[Len(c)]
        IN  IF k.query = q.query /\ q.wildchars = k.wildchars
            THEN trieIlookup(t, From(query, 2), depth, topicType, c)
            ELSE IF k.query = q.query /\ Len(query) % 256 >= (k.wildchars + 1) % 256
            THEN trieIlookup(t, From(query, k.wildchars + 2), depth, topicType, c)
            ELSE IF k.query = Wildcard
            THEN trieIlookup(t, query, depth, topicType, c)
            ELSE {}
  IN  IF Len(query) = 0 THEN here
      ELSE here \cup UNION {below(c) : c \in children(t, curr)}

\* trie.lookup from the root
trieLookup(t, query, depth, topicType) ==
  trieIlookup(t, query, depth, topicType, <<>>)

RECURSIVE orphan(_, _)
\* part.orphan of the part at path p: the root has no parent; the part leaves the
\* children of its parent, and a parent left without children is orphaned too
orphan(t, p) ==
  IF p = <<>> THEN t
  ELSE LET parent == Prefix(p, Len(p) - 1)
           t1 == [t EXCEPT !.nodes = [q \in DOMAIN t.nodes \ {p} |-> t.nodes[q]]]
       IN  IF children(t1, parent) = {} THEN orphan(t1, parent) ELSE t1

\* the topics list top without the tuples of hash h
WithoutHash(top, h) == SelectSeq(top, LAMBDA x : x.hash # h)

\* trie.remove: the tuple leaves its part and the summary; a part left without
\* topics and children is orphaned
trieRemove(t, topicHash) ==
  IF topicHash \notin DOMAIN t.summary THEN t
  ELSE LET curr == t.summary[topicHash]
           t1 == [nodes |-> [t.nodes EXCEPT ![curr].topics = WithoutHash(@, topicHash)],
                  summary |-> [h \in DOMAIN t.summary \ {topicHash} |-> t.summary[h]]]
       IN  IF t1.nodes[curr].topics = <<>> /\ children(t1, curr) = {}
           THEN orphan(t1, curr) ELSE t1

(* ------------------------- concurrent trie.add ------------------------- *)
\* the goroutines that add to the trie
TrieProcs == {"t1", "t2"}

\* a part, with its parent and its map of children: key -> part
newPart(k, parent) ==
  [k |-> k, depth |-> 0, parent |-> parent, children |-> <<>>, topics |-> <<>>]

IdleAdd == [pc |-> "idle"]

\* newTrie: the parts are numbered as they are made, the root is part 1
newTrie ==
  [parts |-> <<newPart(key("", 0), 0)>>, summary |-> <<>>,
   go |-> [g \in TrieProcs |-> IdleAdd], unlocked |-> FALSE]

\* the position of add after part i of its topic
AfterPart(a, i) == IF i > Len(a.parts) THEN "final" ELSE "read"

RECURSIVE Walk(_, _, _)
\* the part at the end of the path of keys from part id, 0 if there is none
Walk(parts, id, keys) ==
  IF keys = <<>> THEN id
  ELSE IF Head(keys) \in DOMAIN parts[id].children
       THEN Walk(parts, parts[id].children[Head(keys)], Tail(keys))
       ELSE 0

(* ------------------------------- state --------------------------------- *)
VARIABLES
  now,         \* wall clock, unix seconds
  seq,         \* DB.Seq(): the last sequence allocated
  window,      \* timeWindowBucket.windowBlocks: the shards
  windowIdx,   \* timeWindowBucket.windowIdx: index of the last window block
  winFile,     \* the window file: block index -> block
  trieOffset,  \* the trie summary: topic hash -> offset of its newest block
  mem,         \* memdb: the seqs whose record is resident
  wal,         \* the write-ahead log: seq -> status of its log
  index,       \* the seqs whose entry is in the index file
  data,        \* the seqs whose message is in the data file
  sh,          \* the syncHandle of each Sync caller
  sp,          \* the position and locals of each Sync call in progress
  syncLockC,   \* number of tokens in the channel syncLockC
  closeW,      \* the wait group closeW
  lockpc,      \* where each goroutine is with respect to syncLockC
  res,         \* the result of the Get that has just returned
  committed,   \* history: seq -> topic hash and expiry of every Put
  synced,      \* history: seqs put before a Sync that returned without error
  hist,        \* history of the Sync call in progress
  putSince,    \* history: has a Put happened since the handle's last startSync
  errors,      \* number of faults (I/O errors, crashes) injected so far
  crashed,     \* the process has panicked
  partTrie,    \* the trie: its nodes by path from the root, and the summary
  tres,        \* the result of the trie lookup that has just returned
  codec,       \* the result of the marshal and unmarshal that has just returned
  cache,       \* memdb: one shard of the block cache
  mgo,         \* memdb: the call that each goroutine is in, and what it returned
  mhist,       \* history: key -> the last Set or Remove that took effect
  lw,          \* WAL: a Writer, its goroutines and the calls of wal.put
  lres,        \* WAL: the result of the call on the Writer that has just returned
  ww,          \* the open windowWriter, and the append that has just returned
  lk,          \* a call of ilookup or lookup on its own: the input, then the result
  ct,          \* the trie as parts with parent and children, and the adds in progress
  ms,          \* the seqs in memdb that wait in the time window, and the Sync over them
  pend,        \* the Put that has its seq and has not yet added to the time window
  md,          \* memdb: the drain goroutine, the ticker, closeC, closeW and Close
  it,          \* an ItemIterator, the index buckets under it, and the items it gave
  cl           \* the cluster as one connection sees it: ring, nodes, conn.nodes

\* the variables of the database
dbVars == <<now, seq, window, windowIdx, winFile, trieOffset, mem, wal, index,
            data, sh, sp, syncLockC, closeW, lockpc, res, committed, synced,
            hist, putSince, errors, crashed>>

\* the variables of the structure of the trie
trieVars == <<partTrie, tres>>

\* the variable of the binary codecs
codecVars == <<codec>>

\* the variables of the components that are exercised on their own
\* the variables of memdb
memVars == <<cache, mgo, mhist>>

\* the variables of the WAL writer
logVars == <<lw, lres>>

\* the variable of the window writer that is driven directly
wwVars == <<ww>>

\* the variable of the lookups that are called on their own
lkVars == <<lk>>

\* the variable of the trie that goroutines add to concurrently
ctVars == <<ct>>

\* the variables of the components that run beside the database
extVars == <<ms, pend, md, it, cl>>

libVars == <<trieVars, codecVars, memVars, logVars, wwVars, lkVars, ctVars, extVars>>

vars == <<dbVars, libVars>>

NoErr == [shard |-> -1, at |-> "nil"]

\* the goroutines that call Sync: the background syncer and a caller of DB.Sync
SyncProcs == {"syncer", "caller"}

LockProcs == SyncProcs \cup {"expirer"}

EmptyQueues == [h \in Hashes |-> <<>>]

IdleSync ==
  [pc |-> "idle", i |-> 0, wEntries |-> EmptyQueues, todo |-> {}, last |-> FALSE,
   err1 |-> NoErr, err |-> NoErr, ret |-> NoErr, panicking |-> FALSE]

NoHist ==
  [before |-> {}, steps |-> <<>>, firstErr |-> NoErr, recovered |-> FALSE,
   recoveries |-> 0, noop |-> FALSE, touched |-> FALSE, quiet |-> FALSE]

\* the state after construction of the database and of the trie
InitDb ==
  /\ now = 0
  /\ seq = 0
  /\ window = [i \in Shards |->
                 [freezed |-> FALSE, entries |-> EmptyQueues,
                  friezedEntries |-> EmptyQueues]]
  /\ windowIdx = -1
  /\ winFile = <<>>
  /\ trieOffset = <<>>
  /\ mem = {}
  /\ wal = <<>>
  /\ index = {}
  /\ data = {}
  /\ sh = [p \in SyncProcs |->
             [lastSyncSeq |-> 0, upperSeq |-> 0, syncStatusOk |-> FALSE,
              blockWriter |-> {}, dataWriter |-> {}, rawBuffers |-> 0]]
  /\ sp = [p \in SyncProcs |-> IdleSync]
  /\ syncLockC = 0
  /\ closeW = 0
  /\ lockpc = [p \in LockProcs |-> "idle"]
  /\ res = NoRes
  /\ committed = <<>>
  /\ synced = {}
  /\ hist = NoHist
  /\ putSince = [p \in SyncProcs |-> TRUE]
  /\ errors = 0
  /\ crashed = FALSE
  /\ partTrie = newPartTrie
  /\ tres = NoRes

\* the state after construction of memdb
InitMem ==
  /\ cache = newMemCache
  /\ mgo = [g \in MemProcs |-> IdleMem]
  /\ mhist = [k \in MemKeys |-> [op |-> "none"]]
  /\ lw = NewWriter
  /\ lres = NoRes
  /\ ww = [writer |-> newWindowWriter(-1), appends |-> 0, last |-> NoRes]
  /\ ct = newTrie
  /\ ms = newSyncMem
  /\ pend = {}
  /\ md = memdbStart
  /\ cl = newCluster

Init ==
  /\ InitDb
  /\ InitMem
  /\ codec = NoRes
  /\ lk = NoRes
  /\ it = NoRes

(* -------------------------------- Put ---------------------------------- *)
\* trie.add of a topic without wildcards: idempotent on the hash, offset 0
trieAdd(t, topicHash) ==
  IF topicHash \in DOMAIN t THEN t ELSE MapPut(t, topicHash, 0)

\* timeWindowBucket.add on the shard wb of the topic
add(wb, topicHash, e) ==
  IF wb.freezed
  THEN [wb EXCEPT !.friezedEntries[topicHash] = Append(@, e)]
  ELSE [wb EXCEPT !.entries[topicHash] = Append(@, e)]

\* DB.Put of a message on topic h that expires at exp (0: never): allocate the
\* seq, memdb append, WAL append, trie add, time-window add
Put(h, exp) ==
  /\ ~crashed
  /\ seq < MaxSeq
  /\ seq' = seq + 1
  /\ mem' = mem \cup {seq'}
  /\ wal' = MapPut(wal, seq', "logWritten")
  /\ trieOffset' = trieAdd(trieOffset, h)
  /\ window' = [window EXCEPT ![FindBlock(h)] = add(@, h, winEntry(seq', exp))]
  /\ committed' = MapPut(committed, seq', [topicHash |-> h, expiresAt |-> exp])
  /\ putSince' = [p \in SyncProcs |-> TRUE]
  /\ res' = NoRes
  /\ UNCHANGED <<libVars, now, windowIdx, winFile, index, data, sh, sp, syncLockC,
                 closeW, lockpc, synced, hist, errors, crashed>>

\* DB.Put up to the add to the time window: the seq is allocated, the record
\* goes to memdb and to the WAL, the topic to the trie; one Put at a time
PutSeq(h) ==
  /\ ~crashed
  /\ pend = {}
  /\ seq < MaxSeq
  /\ seq' = seq + 1
  /\ mem' = mem \cup {seq'}
  /\ wal' = MapPut(wal, seq', "logWritten")
  /\ trieOffset' = trieAdd(trieOffset, h)
  /\ committed' = MapPut(committed, seq', [topicHash |-> h, expiresAt |-> 0])
  /\ putSince' = [p \in SyncProcs |-> TRUE]
  /\ pend' = {[seq |-> seq', topicHash |-> h]}
  /\ res' = NoRes
  /\ UNCHANGED <<trieVars, codecVars, memVars, logVars, wwVars, lkVars, ctVars, ms, md, it, cl,
                 now, window, windowIdx, winFile, index, data, sh, sp, syncLockC,
                 closeW, lockpc, synced, hist, errors, crashed>>

\* the last step of DB.Put: timeWindow.add
PutAdd ==
  /\ ~crashed
  /\ \E e \in pend :
       /\ window' = [window EXCEPT ![FindBlock(e.topicHash)] =
                       add(@, e.topicHash, winEntry(e.seq, 0))]
       /\ pend' = pend \ {e}
  /\ res' = NoRes
  /\ UNCHANGED <<trieVars, codecVars, memVars, logVars, wwVars, lkVars, ctVars, ms, md, it, cl,
                 now, seq, mem, wal, trieOffset, committed, putSince, windowIdx,
                 winFile, index, data, sh, sp, syncLockC, closeW, lockpc, synced,
                 hist, errors, crashed>>

\* the clock advances by a second
Tick ==
  /\ ~crashed
  /\ now < MaxNow
  /\ now' = now + 1
  /\ res' = NoRes
  /\ UNCHANGED <<libVars, seq, window, windowIdx, winFile, trieOffset, mem, wal, index,
                 data, sh, sp, syncLockC, closeW, lockpc, committed, synced,
                 hist, putSince, errors, crashed>>

(* -------------------------------- Get ---------------------------------- *)
\* the payload of a message, as the test writes it: msg.<i> for the i-th Put
Payload(e) == e.seq

\* the payloads of the window entries that memdb or the index and data files hold
ReadPayloads(winEntries) ==
  LET found == SelectSeq(winEntries,
                 LAMBDA e : e.seq \in mem \/ (e.seq \in index /\ e.seq \in data))
  IN  [k \in 1..Len(found) |-> Payload(found[k])]

\* DB.Get of topic h with a limit and a cutoff (the last= parameter): trie lookup,
\* time-window lookup, payload read
Get(h, limit, cutoff) ==
  /\ ~crashed
  /\ LET known == h \in DOMAIN trieOffset
         r == IF known
              THEN lookup(window[FindBlock(h)], winFile, h, trieOffset[h],
                          cutoff, limit, now)
              ELSE [winEntries |-> <<>>, expired |-> <<>>, panic |-> FALSE]
     IN  res' = [op |-> "get", topicHash |-> h, limit |-> limit,
                 cutoff |-> cutoff, winEntries |-> r.winEntries,
                 expired |-> r.expired, panic |-> r.panic,
                 values |-> ReadPayloads(r.winEntries)]
  /\ UNCHANGED <<libVars, now, seq, window, windowIdx, winFile, trieOffset, mem, wal,
                 index, data, sh, sp, syncLockC, closeW, lockpc, committed,
                 synced, hist, putSince, errors, crashed>>

(* ------------------------------ syncLockC ------------------------------ *)
\* capacity of the channel syncLockC
capSyncLockC == 1

NeverFull(c) == TRUE

\* a send on syncLockC goes through when the channel has a free slot
CanSend(c) == c < capSyncLockC

\* the receive from syncLockC in the deferred function
release(c) == c - 1

\* ExpireOldEntries: db.syncLockC <- struct{}{}
ExpireAcquire ==
  /\ ~crashed
  /\ lockpc["expirer"] = "idle"
  /\ CanSend(syncLockC)
  /\ syncLockC' = syncLockC + 1
  /\ lockpc' = [lockpc EXCEPT !["expirer"] = "in"]
  /\ res' = NoRes
  /\ UNCHANGED <<libVars, now, seq, window, windowIdx, winFile, trieOffset, mem, wal,
                 index, data, sh, sp, closeW, committed, synced, hist,
                 putSince, errors, crashed>>

\* ExpireOldEntries: the body (the expiry bucket is empty) and the deferred receive
ExpireRelease ==
  /\ lockpc["expirer"] = "in"
  /\ syncLockC' = release(syncLockC)
  /\ lockpc' = [lockpc EXCEPT !["expirer"] = "idle"]
  /\ res' = NoRes
  /\ UNCHANGED <<libVars, now, seq, window, windowIdx, winFile, trieOffset, mem, wal,
                 index, data, sh, sp, closeW, committed, synced, hist,
                 putSince, errors, crashed>>

(* -------------------------------- Sync --------------------------------- *)
\* what a step of Sync leaves alone besides the variables it names
SyncFrame == <<now, seq, mem, committed, errors>>

\* Sync: db.syncLockC <- struct{}{}; db.closeW.Add(1)
SyncAcquire(p) ==
  /\ ~crashed
  /\ lockpc[p] = "idle"
  /\ CanSend(syncLockC)
  /\ syncLockC' = syncLockC + 1
  /\ closeW' = closeW + 1
  /\ lockpc' = [lockpc EXCEPT ![p] = "in"]
  /\ sp' = [sp EXCEPT ![p] = [IdleSync EXCEPT !.pc = "start"]]
  /\ hist' = [NoHist EXCEPT !.before = DOMAIN committed]
  /\ res' = NoRes
  /\ UNCHANGED <<libVars, now, seq, window, windowIdx, winFile, trieOffset, mem, wal,
                 index, data, sh, committed, synced, putSince, errors, crashed>>

startSyncAlways(s, dbseq) ==
  [s EXCEPT !.lastSyncSeq = dbseq, !.syncStatusOk = TRUE,
            !.blockWriter = {}, !.dataWriter = {}, !.rawBuffers = 2]

\* syncHandle.startSync; the boolean it returns is the syncStatusOk it leaves
startSync(s, dbseq) ==
  IF s.lastSyncSeq = dbseq
  THEN [s EXCEPT !.syncStatusOk = FALSE]
  ELSE [s EXCEPT !.lastSyncSeq = dbseq, !.syncStatusOk = TRUE,
                 !.blockWriter = {}, !.dataWriter = {}, !.rawBuffers = 2]

SyncReturnErr(err) == err

\* the value of the return statements of Sync, given the error of the pipeline
SyncReturn(err) == NoErr

\* Sync: if ok := db.startSync(); !ok { return nil }
SyncStart(p) ==
  /\ sp[p].pc = "start"
  /\ LET s == startSync(sh[p], seq)
     IN  /\ sh' = [sh EXCEPT ![p] = s]
         /\ sp' = [sp EXCEPT ![p] =
                     IF s.syncStatusOk
                     THEN [@ EXCEPT !.pc = "shard", !.i = 0]
                     ELSE [@ EXCEPT !.pc = "release", !.ret = SyncReturn(NoErr)]]
         /\ hist' = [hist EXCEPT !.noop = ~s.syncStatusOk,
                                 !.quiet = ~putSince[p]]
  /\ putSince' = [putSince EXCEPT ![p] = FALSE]
  /\ res' = NoRes
  /\ UNCHANGED <<libVars, SyncFrame, window, windowIdx, winFile, trieOffset, wal, index,
                 data, syncLockC, closeW, lockpc, synced, crashed>>

\* foreachTimeWindow: freeze shard i and snapshot its entries
SyncShard(p) ==
  /\ sp[p].pc = "shard"
  /\ LET i == sp[p].i
         wb == window[i]
     IN  /\ window' = [window EXCEPT ![i].freezed = TRUE]
         /\ sp' = [sp EXCEPT ![p] =
                     [@ EXCEPT !.pc = "topic", !.wEntries = wb.entries,
                               !.todo = {h \in Hashes : wb.entries[h] # <<>>}]]
  /\ hist' = [hist EXCEPT !.touched = TRUE]
  /\ res' = NoRes
  /\ UNCHANGED <<libVars, SyncFrame, windowIdx, winFile, trieOffset, wal, index, data,
                 sh, syncLockC, closeW, lockpc, synced, putSince, crashed>>

\* trie.setOffset on the summary
setOffset(t, topicHash, off) ==
  IF topicHash \in DOMAIN t THEN [t EXCEPT ![topicHash] = off] ELSE t

Max(a, b) == IF a > b THEN a ELSE b

SeqsOf(wEntries) == {wEntries[k].seq : k \in 1..Len(wEntries)} \ {0}

\* the callback of Sync on one topic of the snapshot, up to the flush: getOffset,
\* timeWindow.sync, setOffset, the entries into the writers, upperSeq; and the
\* exits of the callback once the topics are done
SyncTopic(p) ==
  /\ sp[p].pc = "topic"
  /\ \/ \E h \in sp[p].todo :
          /\ h \in DOMAIN trieOffset
          /\ LET wEntries == sp[p].wEntries[h]
                 r == timeWindowSync(windowIdx, winFile, h, trieOffset[h],
                                     wEntries, now)
                 wEntry == wEntries[Len(wEntries)]
             IN  /\ windowIdx' = r.windowIdx
                 /\ winFile' = r.file
                 /\ trieOffset' = setOffset(trieOffset, h, r.newOff)
                 /\ sh' = [sh EXCEPT
                             ![p].blockWriter = @ \cup SeqsOf(wEntries),
                             ![p].dataWriter = @ \cup SeqsOf(wEntries),
                             ![p].upperSeq = Max(@, wEntry.seq)]
          /\ sp' = [sp EXCEPT ![p] = [@ EXCEPT !.pc = "flush", !.last = FALSE,
                                               !.todo = @ \ {h}]]
          /\ hist' = [hist EXCEPT !.steps = <<>>]
     \/ /\ sp[p].todo = {}
        /\ sp[p].i = nShards - 1
        /\ sp' = [sp EXCEPT ![p] = [@ EXCEPT !.pc = "flush", !.last = TRUE]]
        /\ hist' = [hist EXCEPT !.steps = <<>>]
        /\ UNCHANGED <<windowIdx, winFile, trieOffset, sh>>
     \/ /\ sp[p].todo = {}
        /\ sp[p].i < nShards - 1
        /\ sp' = [sp EXCEPT ![p] = [@ EXCEPT !.pc = "reset"]]
        /\ UNCHANGED <<windowIdx, winFile, trieOffset, sh, hist>>
  /\ res' = NoRes
  /\ UNCHANGED <<libVars, SyncFrame, window, wal, index, data, syncLockC, closeW,
                 lockpc, synced, putSince, crashed>>

\* the steps of a flush that precede SignalLogApplied, in program order
FlushSteps ==
  <<"newBlock", "blockWriter.write", "dataWriter.write", "writeHeader",
    "index.Sync", "data.Sync">>

onErrorIgnore(pc) == "signal"

\* where the callback goes when a step returns an error: it returns, and
\* foreachTimeWindow unfreezes the shard
onError(pc) == "unfreeze"

\* the flush of the callback: newBlock for every new bucket, blockWriter.write,
\* dataWriter.write and DB.sync; k = 0 when every step succeeds, else the step
\* that returns an error
SyncFlush(p, k) ==
  /\ sp[p].pc = "flush"
  /\ LET bw == k = 0 \/ k > 2
         dw == k = 0 \/ k > 3
     IN  /\ index' = IF bw THEN index \cup sh[p].blockWriter ELSE index
         /\ data' = IF dw THEN data \cup sh[p].dataWriter ELSE data
         /\ sh' = [sh EXCEPT
                     ![p].blockWriter = IF bw THEN {} ELSE @,
                     ![p].dataWriter = IF dw THEN {} ELSE @]
  /\ IF k = 0
     THEN /\ sp' = [sp EXCEPT ![p] = [@ EXCEPT !.pc = "signal"]]
          /\ hist' = [hist EXCEPT !.steps = FlushSteps]
          /\ UNCHANGED errors
     ELSE /\ errors < MaxErrors
          /\ sp' = [sp EXCEPT ![p] =
                      [@ EXCEPT !.pc = onError(sp[p].pc),
                                !.err1 = [shard |-> sp[p].i, at |-> FlushSteps[k]]]]
          /\ errors' = errors + 1
          /\ hist' = [hist EXCEPT
                        !.firstErr = IF @ = NoErr
                                     THEN [shard |-> sp[p].i, at |-> FlushSteps[k]]
                                     ELSE @,
                        !.steps = SubSeq(FlushSteps, 1, k - 1) \o <<"error">>]
  /\ res' = NoRes
  /\ UNCHANGED <<libVars, now, seq, mem, committed, window, windowIdx, winFile,
                 trieOffset, wal, syncLockC, closeW, lockpc, synced, putSince,
                 crashed>>

\* WAL.SignalLogApplied: the logs written up to upperSeq become applied
SignalLogApplied(w, upperSeq) ==
  [s \in DOMAIN w |->
     IF s <= upperSeq /\ w[s] = "logWritten" THEN "logApplied" ELSE w[s]]

\* the end of a flush: wal.SignalLogApplied(db.upperSeq), then mem.Free of the
\* last entry, which removes nothing from memdb
SyncSignal(p) ==
  /\ sp[p].pc = "signal"
  /\ wal' = SignalLogApplied(wal, sh[p].upperSeq)
  /\ sp' = [sp EXCEPT ![p] =
              [@ EXCEPT !.pc = IF sp[p].last THEN "reset" ELSE "topic"]]
  /\ hist' = [hist EXCEPT !.steps = @ \o <<"SignalLogApplied">>]
  /\ res' = NoRes
  /\ UNCHANGED <<libVars, SyncFrame, window, windowIdx, winFile, trieOffset, index, data,
                 sh, syncLockC, closeW, lockpc, synced, putSince, crashed>>

\* an error of the callback outside the flush: of timeWindow.sync, mem.Get or the
\* writers on a topic, or of SignalLogApplied
SyncFail(p) ==
  /\ \/ sp[p].pc = "topic" /\ sp[p].todo # {}
     \/ sp[p].pc = "signal"
  /\ errors < MaxErrors
  /\ LET e == [shard |-> sp[p].i, at |-> sp[p].pc]
     IN  /\ sp' = [sp EXCEPT ![p] = [@ EXCEPT !.pc = onError(sp[p].pc), !.err1 = e]]
         /\ hist' = [hist EXCEPT !.firstErr = IF @ = NoErr THEN e ELSE @]
  /\ errors' = errors + 1
  /\ res' = NoRes
  /\ UNCHANGED <<libVars, now, seq, mem, committed, window, windowIdx, winFile,
                 trieOffset, wal, index, data, sh, syncLockC, closeW, lockpc,
                 synced, putSince, crashed>>

\* foreachTimeWindow with a callback of any kind: f(wEntries) returns stop and
\* err1, and changes nothing that the loop uses
ForeachCallback(p, stop, failed) ==
  /\ sp[p].pc = "topic"
  /\ failed => errors < MaxErrors
  /\ LET e == IF failed THEN [shard |-> sp[p].i, at |-> "f"] ELSE NoErr
     IN  /\ sp' = [sp EXCEPT ![p] =
                     [@ EXCEPT !.pc = IF stop \/ failed THEN "unfreeze" ELSE "reset",
                               !.err1 = e]]
         /\ hist' = [hist EXCEPT !.firstErr = IF @ = NoErr THEN e ELSE @]
  /\ errors' = IF failed THEN errors + 1 ELSE errors
  /\ res' = NoRes
  /\ UNCHANGED <<libVars, now, seq, mem, committed, window, windowIdx, winFile,
                 trieOffset, wal, index, data, sh, syncLockC, closeW, lockpc,
                 synced, putSince, crashed>>

\* timeWindow.reset
reset(wb) == [wb EXCEPT !.entries = EmptyQueues]

unFreezeDrop(wb) ==
  [wb EXCEPT !.freezed = FALSE, !.friezedEntries = EmptyQueues]

\* timeWindow.unFreeze
unFreeze(wb) ==
  [wb EXCEPT !.freezed = FALSE,
             !.entries = [h \in Hashes |-> wb.entries[h] \o wb.friezedEntries[h]],
             !.friezedEntries = EmptyQueues]

\* a loop that forgets the error of the shards before
NextShardDropErr(s) ==
  IF s.i + 1 < nShards
  THEN [s EXCEPT !.pc = "shard", !.i = @ + 1, !.err1 = NoErr, !.err = NoErr]
  ELSE [s EXCEPT !.pc = "after", !.err1 = NoErr]

\* the loop of foreachTimeWindow moves to the next shard, or returns err
NextShard(s) ==
  IF s.i + 1 < nShards
  THEN [s EXCEPT !.pc = "shard", !.i = @ + 1, !.err1 = NoErr]
  ELSE [s EXCEPT !.pc = "after", !.err1 = NoErr]

\* foreachTimeWindow after a callback that failed: err = err1; unFreeze
SyncUnfreeze(p) ==
  /\ sp[p].pc = "unfreeze"
  /\ window' = [window EXCEPT ![sp[p].i] = unFreeze(@)]
  /\ sp' = [sp EXCEPT ![p] = NextShard([@ EXCEPT !.err = sp[p].err1])]
  /\ res' = NoRes
  /\ UNCHANGED <<libVars, SyncFrame, windowIdx, winFile, trieOffset, wal, index, data,
                 sh, syncLockC, closeW, lockpc, synced, hist, putSince, crashed>>

\* foreachTimeWindow after a callback that succeeded: reset; unFreeze
SyncReset(p) ==
  /\ sp[p].pc = "reset"
  /\ window' = [window EXCEPT ![sp[p].i] = unFreeze(reset(@))]
  /\ sp' = [sp EXCEPT ![p] = NextShard(@)]
  /\ res' = NoRes
  /\ UNCHANGED <<libVars, SyncFrame, windowIdx, winFile, trieOffset, wal, index, data,
                 sh, syncLockC, closeW, lockpc, synced, hist, putSince, crashed>>

\* Sync after foreachTimeWindow returned nil: return nil
SyncAfter(p) ==
  /\ sp[p].pc = "after"
  /\ sp[p].err = NoErr
  /\ sp' = [sp EXCEPT ![p] = [@ EXCEPT !.pc = "finish",
                                       !.ret = SyncReturn(sp[p].err)]]
  /\ res' = NoRes
  /\ UNCHANGED <<libVars, SyncFrame, window, windowIdx, winFile, trieOffset, wal, index,
                 data, sh, syncLockC, closeW, lockpc, synced, hist, putSince,
                 crashed>>

\* Sync after foreachTimeWindow returned an error: startRecovery, and return nil
\* when it succeeds (ok), panic when it fails
SyncRecover(p, ok) ==
  /\ sp[p].pc = "after"
  /\ sp[p].err # NoErr
  /\ sp' = [sp EXCEPT ![p] =
              IF ok
              THEN [@ EXCEPT !.pc = "finish", !.ret = SyncReturn(sp[p].err)]
              ELSE [@ EXCEPT !.pc = "finish", !.panicking = TRUE]]
  /\ hist' = [hist EXCEPT !.recovered = ok, !.recoveries = @ + 1]
  /\ res' = NoRes
  /\ UNCHANGED <<libVars, SyncFrame, window, windowIdx, winFile, trieOffset, wal, index,
                 data, sh, syncLockC, closeW, lockpc, synced, putSince, crashed>>

\* syncHandle.finish: the two buffers go back to the pool
finish(s) == IF s.syncStatusOk THEN [s EXCEPT !.rawBuffers = 0] ELSE s

\* the deferred functions of Sync, on return and on panic: finish when startSync
\* succeeded, then <-db.syncLockC and db.closeW.Done()
SyncRelease(p) ==
  /\ sp[p].pc \in {"finish", "release"}
  /\ sh' = [sh EXCEPT ![p] = IF sp[p].pc = "finish" THEN finish(@) ELSE @]
  /\ syncLockC' = release(syncLockC)
  /\ closeW' = closeW - 1
  /\ lockpc' = [lockpc EXCEPT ![p] = "idle"]
  /\ crashed' = (crashed \/ sp[p].panicking)
  /\ synced' = IF hist.firstErr = NoErr /\ ~sp[p].panicking
               THEN synced \cup hist.before ELSE synced
  /\ sp' = [sp EXCEPT ![p] = IdleSync]
  /\ hist' = NoHist
  /\ res' = NoRes
  /\ UNCHANGED <<libVars, SyncFrame, window, windowIdx, winFile, trieOffset, wal, index,
                 data, putSince>>

(* -------------------------- crash and reopen --------------------------- *)
\* the trie as DB open loads it from the window file: every block in file order
\* sets the offset of its topic hash, so the newest block of a topic wins
loadTrie(file) ==
  LET hs == {file[b].topicHash : b \in DOMAIN file} \ {0}
      newest(h) == CHOOSE b \in DOMAIN file :
                     /\ file[b].topicHash = h
                     /\ \A c \in DOMAIN file : file[c].topicHash = h => c <= b
  IN  [h \in hs |-> winBlockOffset(newest(h))]

RECURSIVE recoverLog(_, _, _)
\* the replay of the logs with status logWritten, in seq order: every entry goes
\* to memdb, to the trie and to the queue of its topic; st holds mem, trie, window
recoverLog(st, logs, todo) ==
  IF todo = {} THEN st
  ELSE LET s == CHOOSE x \in todo : \A y \in todo : x <= y
           h == logs[s].topicHash
       IN  recoverLog(
             [mem |-> st.mem \cup {s},
              trie |-> trieAdd(st.trie, h),
              window |-> [st.window EXCEPT ![FindBlock(h)] =
                            add(@, h, winEntry(s, logs[s].expiresAt))]],
             logs, todo \ {s})

\* the process dies at any point and the DB is opened again: memory is lost, the
\* files stay; open loads the trie from the window file and replays the log
Reopen ==
  /\ errors < MaxErrors
  /\ errors' = errors + 1
  /\ LET fresh == [i \in Shards |->
                     [freezed |-> FALSE, entries |-> EmptyQueues,
                      friezedEntries |-> EmptyQueues]]
         r == recoverLog([mem |-> {}, trie |-> loadTrie(winFile), window |-> fresh],
                         committed,
                         {s \in DOMAIN wal : wal[s] = "logWritten"})
     IN  /\ mem' = r.mem
         /\ trieOffset' = r.trie
         /\ window' = r.window
  /\ windowIdx' = Cardinality(DOMAIN winFile) - 1
  /\ sh' = [p \in SyncProcs |->
              [lastSyncSeq |-> 0, upperSeq |-> 0, syncStatusOk |-> FALSE,
               blockWriter |-> {}, dataWriter |-> {}, rawBuffers |-> 0]]
  /\ sp' = [p \in SyncProcs |-> IdleSync]
  /\ syncLockC' = 0
  /\ closeW' = 0
  /\ lockpc' = [p \in LockProcs |-> "idle"]
  /\ hist' = NoHist
  /\ putSince' = [p \in SyncProcs |-> TRUE]
  /\ crashed' = FALSE
  /\ res' = NoRes
  /\ UNCHANGED <<libVars, now, seq, winFile, wal, index, data, committed, synced>>

(* ------------------------- codec operations ---------------------------- *)
\* values of the unsigned 16, 32 and 64 bit fields and of the int64 fields; the
\* 32 and 64 bit ones stay below 2^31
U16Vals == {0, 1, 65535}

U32Vals == {0, 65536, 2147483647}

U64Vals == {0, 255, 2147483647}

I64Vals == {-2147483647, -1, 0, 2147483647}

\* the signature of a WAL file: 't','r','a','c','e','d','b',0xfd
signature == <<116, 114, 97, 99, 101, 100, 98, 253>>

EntryVals == {NoEntry, winEntry(255, 65536), winEntry(2147483647, 2147483647)}

RECURSIVE EntrySeqs(_)
\* the arrays of n window entries
EntrySeqs(n) ==
  IF n = 0 THEN {<<>>}
  ELSE {Append(es, e) : es \in EntrySeqs(n - 1), e \in EntryVals}

WinBlockVals ==
  [topicHash : U64Vals, entries : EntrySeqs(seqsPerWindowBlock), next : I64Vals,
   cutoff : I64Vals, entryIdx : U16Vals, dirty : BOOLEAN, leased : BOOLEAN]

LogInfoVals ==
  [version : U16Vals, status : U16Vals, entryCount : U32Vals, seq : U64Vals,
   size : I64Vals, offset : I64Vals]

FreeBlockVals ==
  {ZeroFreeBlock, [size |-> 256, offset |-> -1],
   [size |-> 2147483647, offset |-> 2147483647]}

HeaderVals ==
  [signature : {signature, Zeros(8)}, version : U32Vals, seq : U64Vals,
   fb : FreeBlockVals \X FreeBlockVals \X FreeBlockVals]

\* a value of one of the three types, about to be marshalled
CodecInputs ==
  {[op |-> "winBlock", stage |-> "in", in |-> w] : w \in WinBlockVals}
  \cup {[op |-> "logInfo", stage |-> "in", in |-> l] : l \in LogInfoVals}
  \cup {[op |-> "header", stage |-> "in", in |-> h] : h \in HeaderVals}

InitCodec ==
  /\ InitDb
  /\ InitMem
  /\ codec \in CodecInputs
  /\ lk = NoRes
  /\ it = NoRes

\* MarshalBinary of the value
CodecMarshal ==
  /\ codec.op \in {"winBlock", "logInfo", "header"}
  /\ codec.stage = "in"
  /\ codec' = [op |-> codec.op, stage |-> "buf", in |-> codec.in,
               buf |-> CASE codec.op = "winBlock" -> winBlockMarshalBinary(codec.in)
                         [] codec.op = "logInfo" -> logInfoMarshalBinary(codec.in)
                         [] codec.op = "header" -> headerMarshalBinary(codec.in)]
  /\ UNCHANGED <<dbVars, trieVars, memVars, logVars, wwVars, lkVars, ctVars, extVars>>

\* UnmarshalBinary of the bytes into a zero value, as windowHandle.read and the
\* readers of the WAL do
CodecUnmarshal ==
  /\ codec.op \in {"winBlock", "logInfo", "header"}
  /\ codec.stage = "buf"
  /\ codec' = [op |-> codec.op, stage |-> "out", in |-> codec.in, buf |-> codec.buf,
               out |-> CASE codec.op = "winBlock" ->
                              winBlockUnmarshalBinary(ZeroBlock, codec.buf)
                         [] codec.op = "logInfo" ->
                              logInfoUnmarshalBinary(ZeroLogInfo, codec.buf)
                         [] codec.op = "header" ->
                              headerUnmarshalBinary(ZeroHeader, codec.buf)]
  /\ UNCHANGED <<dbVars, trieVars, memVars, logVars, wwVars, lkVars, ctVars, extVars>>

(* ------------------------- memdb operations ---------------------------- *)
\* goroutine g calls a method of memdb and takes the lock of the shard: Lock for
\* Set, Free and the shrinker, RLock for the others; a Set is called while the
\* arena holds fewer than the given number of records
MemCallUpTo(g, c, records) ==
  /\ mgo[g].pc = "idle"
  /\ c.op = "Set" => Records(cache.data, 0) < records
  /\ cache.writer = NoProc
  /\ c.op \in TakesLock => cache.readers = {}
  /\ cache' = IF c.op \in TakesLock THEN [cache EXCEPT !.writer = g]
              ELSE [cache EXCEPT !.readers = @ \cup {g}]
  /\ LET inside == {o \in MemProcs \ {g} : mgo[o].pc = "in"}
         hit == {o \in inside :
                   c.op \in WritesShard \/ mgo[o].call.op \in WritesShard}
     IN  mgo' = [o \in MemProcs |->
                   IF o = g
                   THEN [pc |-> "in", call |-> c, raced |-> hit # {}, ret |-> NoRes]
                   ELSE IF o \in hit THEN [mgo[o] EXCEPT !.raced = TRUE]
                   ELSE [mgo[o] EXCEPT !.ret = NoRes]]
  /\ UNCHANGED <<dbVars, trieVars, codecVars, logVars, wwVars, lkVars, ctVars, extVars, mhist>>

MemCall(g, c) == MemCallUpTo(g, c, MaxRecords)

\* the body of the method that goroutine g is in
memBody(c, call) ==
  CASE call.op = "Set" -> memSet(c, call.key, call.data)
    [] call.op = "Remove" -> memRemove(c, call.key)
    [] call.op = "Free" -> memFree(c, call.key)
    [] call.op = "shrink" -> shrinkDataTable(c)
    [] OTHER -> c

\* what the method that goroutine g is in returns
memRet(c, call) ==
  CASE call.op = "Get" -> [op |-> "Get", val |-> memGet(c, call.key)]
    [] call.op = "Keys" -> [op |-> "Keys", keys |-> DOMAIN c.m]
    [] call.op = "Count" -> [op |-> "Count", n |-> Cardinality(DOMAIN c.m)]
    [] call.op = "Size" -> [op |-> "Size", n |-> Len(c.data)]
    [] OTHER -> [op |-> call.op, err |-> "nil"]

\* goroutine g runs the body of its method, unlocks and returns; when its access
\* to the map raced with another goroutine the runtime may instead stop the
\* process (fatal: concurrent map read and map write)
MemReturn(g, fatal) ==
  /\ mgo[g].pc = "in"
  /\ fatal => mgo[g].raced
  /\ LET call == mgo[g].call
         c1 == IF fatal THEN cache ELSE memBody(cache, call)
     IN  /\ cache' = [c1 EXCEPT !.writer = IF @ = g THEN NoProc ELSE @,
                                !.readers = @ \ {g}]
         /\ mgo' = [o \in MemProcs |->
                      IF o = g
                      THEN [pc |-> "idle", call |-> call, raced |-> mgo[g].raced,
                            ret |-> IF fatal THEN [op |-> "fatal"]
                                    ELSE memRet(cache, call)]
                      ELSE [mgo[o] EXCEPT !.ret = NoRes]]
         /\ mhist' = IF fatal THEN mhist
                     ELSE IF call.op = "Set"
                     THEN [mhist EXCEPT ![call.key] = [op |-> "Set", data |-> call.data]]
                     ELSE IF call.op = "Remove" /\ call.key \in DOMAIN cache.m
                     THEN [mhist EXCEPT ![call.key] = [op |-> "Remove"]]
                     ELSE mhist
  /\ UNCHANGED <<dbVars, trieVars, codecVars, logVars, wwVars, lkVars, ctVars, extVars>>

\* a tick of the drain loop, run by the goroutine that Open starts, while no
\* other goroutine is in the shard
DrainTick ==
  /\ \A g \in MemProcs : mgo[g].pc = "idle"
  /\ LET size == Len(cache.data)
         shrinks == aboveTarget(size, memdbOpen(memSize).targetSize)
     IN  /\ cache' = IF shrinks THEN shrinkDataTable(cache) ELSE cache
         /\ mgo' = [mgo EXCEPT
                      !["g1"].ret = NoRes,
                      !["g2"] = [pc |-> "idle", call |-> [op |-> "drain"],
                                 raced |-> FALSE,
                                 ret |-> [op |-> "drain", size |-> size,
                                          shrunk |-> shrinks,
                                          before |-> cache]]]
  /\ UNCHANGED <<dbVars, trieVars, codecVars, logVars, wwVars, lkVars, ctVars, extVars, mhist>>

\* what the steps of Put and Sync on the shard leave alone
SyncMemFrame ==
  <<dbVars, trieVars, codecVars, logVars, wwVars, lkVars, ctVars, mgo, mhist, pend,
    md, it, cl>>

\* DB.Put of a message of its own topic: the next seq, mem.Set of its record
\* and timeWindow.add
PutMem(d) ==
  /\ ms.lost = {}
  /\ ms.seq < ShrinkRecords
  /\ cache' = memSet(cache, ms.seq + 1, d)
  /\ ms' = [ms EXCEPT !.seq = @ + 1, !.window = @ \cup {ms.seq + 1}]
  /\ UNCHANGED SyncMemFrame

\* Sync: foreachTimeWindow freezes the shard of the window and hands a snapshot
\* of its entries to the callback
SyncSnapshot ==
  /\ ms.lost = {}
  /\ ms.todo = {}
  /\ ms.window # {}
  /\ ms' = [ms EXCEPT !.todo = ms.window, !.window = {}]
  /\ UNCHANGED <<SyncMemFrame, cache>>

\* the callback of Sync on the topic of seq k, topics in any order: mem.Get of
\* the record; with no record Get returns (nil, nil) and memdata[:entrySize]
\* panics
SyncMemGet(k) ==
  /\ ms.lost = {}
  /\ ms.cur = 0
  /\ k \in ms.todo
  /\ ms' = IF memGet(cache, k).nil
           THEN [ms EXCEPT !.lost = {k}]
           ELSE [ms EXCEPT !.cur = k]
  /\ UNCHANGED <<SyncMemFrame, cache>>

\* the callback of Sync after the flush of the topic: mem.Free of its last entry
SyncMemFree ==
  /\ ms.lost = {}
  /\ ms.cur # 0
  /\ cache' = memFree(cache, ms.cur)
  /\ ms' = [ms EXCEPT !.cur = 0, !.todo = @ \ {ms.cur},
                      !.flushed = @ \cup {ms.cur}]
  /\ UNCHANGED SyncMemFrame

(* ---------------------- memdb: drain and Close ------------------------ *)
\* what the steps of the drain goroutine and of Close leave alone
DrainFrame ==
  <<dbVars, trieVars, codecVars, logVars, wwVars, lkVars, ctVars, mgo, mhist, ms,
    pend, it, cl>>

\* the goroutine of drain begins to run: db.closeW.Add(1)
DrainBegin ==
  /\ md.drain = "started"
  /\ md' = [md EXCEPT !.drain = "select", !.closeW = @ + 1]
  /\ UNCHANGED <<DrainFrame, cache>>

\* the ticker sends a tick to its channel, which holds one
TickerFire ==
  /\ md.drain # "exited"
  /\ ~md.tick
  /\ md' = [md EXCEPT !.tick = TRUE]
  /\ UNCHANGED <<DrainFrame, cache>>

\* select takes case <-shrinkerTicker.C, whether or not closeC is closed: Size,
\* and shrinkDataTable when the size is above the target
DrainSelectTick ==
  /\ md.drain = "select"
  /\ md.tick
  /\ \A g \in MemProcs : mgo[g].pc = "idle"
  /\ LET shrinks == aboveTarget(Len(cache.data), memdbOpen(memSize).targetSize)
     IN  /\ cache' = IF shrinks THEN shrinkDataTable(cache) ELSE cache
         /\ md' = [md EXCEPT !.tick = FALSE,
                             !.late = @ \/ (shrinks /\ md.close = "returned")]
  /\ UNCHANGED DrainFrame

\* select takes case <-db.closeC: return, and the deferred Stop and Done
DrainSelectClose ==
  /\ md.drain = "select"
  /\ md.closeC
  /\ md' = [md EXCEPT !.drain = "exited", !.closeW = @ - 1]
  /\ UNCHANGED <<DrainFrame, cache>>

\* DB.Close: close(db.closeC)
CloseSignal ==
  /\ md.close = "idle"
  /\ \A g \in MemProcs : mgo[g].pc = "idle"
  /\ md' = [md EXCEPT !.close = "tables", !.closeC = TRUE]
  /\ UNCHANGED <<DrainFrame, cache>>

\* DB.Close: the loop that closes the data table of every shard under its lock
CloseTables ==
  /\ md.close = "tables"
  /\ md' = [md EXCEPT !.close = "wait", !.tables = "closed"]
  /\ UNCHANGED <<DrainFrame, cache>>

\* DB.Close: db.closeW.Wait() goes through when the counter is zero; return nil
CloseWait ==
  /\ md.close = "wait"
  /\ md.closeW = 0
  /\ md' = [md EXCEPT !.close = "returned"]
  /\ UNCHANGED <<DrainFrame, cache>>

(* ----------------------- iterator operations -------------------------- *)
\* what the calls on the iterator leave alone
IterFrame ==
  <<dbVars, trieVars, codecVars, memVars, logVars, wwVars, lkVars, ctVars, ms, pend,
    md, cl>>

\* what Item returns to the loop 'for it.First(); it.Valid(); it.Next()' after
\* the call that led to s
Taken(s, op, failed) ==
  [s EXCEPT !.op = op,
            !.errs = IF failed THEN @ + 1 ELSE @,
            !.seen = IF itValid(s) THEN Append(@, s.item) ELSE @]

\* the reads that may fail in a call
Fails == {NoFail} \cup ((0..nBuckets - 1) \X (1..entriesPerBucket))

\* it.First() on a new iterator
IterFirst(fail) ==
  /\ it.op = "new"
  /\ fail # NoFail => it.errs < MaxErrors
  /\ it' = Taken(itFirst(it, fail), "First", fail # NoFail)
  /\ UNCHANGED IterFrame

\* it.Next() while the iterator is valid
IterNext(fail) ==
  /\ it.op \in {"First", "Next"}
  /\ itValid(it)
  /\ fail # NoFail => it.errs < MaxErrors
  /\ it' = Taken(itNext(it, fail), "Next", fail # NoFail)
  /\ UNCHANGED IterFrame

(* ------------------------ cluster operations --------------------------- *)
\* what the steps of the cluster leave alone
ClusterFrame ==
  <<dbVars, trieVars, codecVars, memVars, logVars, wwVars, lkVars, ctVars, ms, pend,
    md, it>>

\* Cluster.rehash: the ring gives another node for the contract
Rehash(n) ==
  /\ ~cl.gone
  /\ n # cl.ring
  /\ cl' = [cl EXCEPT !.ring = n]
  /\ UNCHANGED ClusterFrame

\* Cluster.routeToContract: the node of the contract is recorded in conn.nodes,
\* whatever the forward returns; no node when the ring gives this node
RouteToContract ==
  /\ ~cl.gone
  /\ cl.ring # thisNodeName
  /\ cl.ring \in cl.nodes
  /\ cl.ring \notin cl.connNodes
  /\ cl' = [cl EXCEPT !.connNodes = @ \cup {cl.ring}]
  /\ UNCHANGED ClusterFrame

\* the session ends at its origin: Cluster.connGone(conn)
ConnGone(first, up) ==
  /\ ~cl.gone
  /\ first \in cl.connNodes
  /\ cl' = connGone(cl, first, up)
  /\ UNCHANGED ClusterFrame

(* ----------------------- WAL writer operations ------------------------- *)
\* Writer.Append(d): an error once the log is written or released, else a
\* goroutine that will run append
WriterAppend(d) ==
  /\ lw.calls < MaxCalls
  /\ IF writtenOrReleased(lw)
     THEN /\ lw' = [lw EXCEPT !.calls = @ + 1]
          /\ lres' = [op |-> "Append", err |-> "written"]
     ELSE /\ lw' = [lw EXCEPT !.calls = @ + 1, !.goAppend = Append(@, d)]
          /\ lres' = [op |-> "Append", err |-> "nil"]
  /\ UNCHANGED <<dbVars, trieVars, codecVars, memVars, wwVars, lkVars, ctVars, extVars>>

\* the goroutine of an Append runs Writer.append while no other goroutine is
\* inside it
RunAppend ==
  /\ lw.goAppend # <<>>
  /\ lw' = [writerAppend(lw, Head(lw.goAppend)) EXCEPT !.goAppend = Tail(@)]
  /\ lres' = NoRes
  /\ UNCHANGED <<dbVars, trieVars, codecVars, memVars, wwVars, lkVars, ctVars, extVars>>

\* Writer.append, one access to the Writer at a time. A goroutine of Append
\* enters append: it returns at once for empty data and reads count otherwise
AppendBegin ==
  /\ lw.goAppend # <<>>
  /\ LET d == Head(lw.goAppend)
     IN  lw' = [lw EXCEPT
                  !.goAppend = Tail(@),
                  !.run = Append(@, [d |-> d, r |-> lw.count,
                                     pc |-> IF Len(d) = 0 THEN "done" ELSE "count"])]
  /\ lres' = NoRes
  /\ UNCHANGED <<dbVars, trieVars, codecVars, memVars, wwVars, lkVars, ctVars, extVars>>

\* w.count++: the store of the value read plus one
AppendCount(i) ==
  /\ i \in DOMAIN lw.run
  /\ lw.run[i].pc = "count"
  /\ lw' = [lw EXCEPT !.count = lw.run[i].r + 1, !.run[i].pc = "scratch"]
  /\ lres' = NoRes
  /\ UNCHANGED <<dbVars, trieVars, codecVars, memVars, wwVars, lkVars, ctVars, extVars>>

\* w.buffer.Write(scratch[:]): the four bytes of the length, in one piece
AppendScratch(i) ==
  /\ i \in DOMAIN lw.run
  /\ lw.run[i].pc = "scratch"
  /\ lw' = [lw EXCEPT !.buffer = @ \o PutUint(4, Len(lw.run[i].d) + 4),
                      !.run[i].pc = "read"]
  /\ lres' = NoRes
  /\ UNCHANGED <<dbVars, trieVars, codecVars, memVars, wwVars, lkVars, ctVars, extVars>>

\* w.logSize += dataLen: the load
AppendSizeRead(i) ==
  /\ i \in DOMAIN lw.run
  /\ lw.run[i].pc = "read"
  /\ lw' = [lw EXCEPT !.run[i].r = lw.logSize, !.run[i].pc = "size"]
  /\ lres' = NoRes
  /\ UNCHANGED <<dbVars, trieVars, codecVars, memVars, wwVars, lkVars, ctVars, extVars>>

\* w.logSize += dataLen: the store
AppendSize(i) ==
  /\ i \in DOMAIN lw.run
  /\ lw.run[i].pc = "size"
  /\ lw' = [lw EXCEPT !.logSize = lw.run[i].r + Len(lw.run[i].d) + 4,
                      !.run[i].pc = "data"]
  /\ lres' = NoRes
  /\ UNCHANGED <<dbVars, trieVars, codecVars, memVars, wwVars, lkVars, ctVars, extVars>>

\* w.buffer.Write(data), in one piece, and the return of append
AppendData(i) ==
  /\ i \in DOMAIN lw.run
  /\ lw.run[i].pc = "data"
  /\ lw' = [lw EXCEPT !.buffer = @ \o lw.run[i].d, !.run[i].pc = "done"]
  /\ lres' = NoRes
  /\ UNCHANGED <<dbVars, trieVars, codecVars, memVars, wwVars, lkVars, ctVars, extVars>>

\* Writer.SignalInitWrite: the misuse error once the log is written or released,
\* else a goroutine that will run writeLog
SignalInitWrite ==
  /\ lw.calls < MaxCalls
  /\ IF writtenOrReleased(lw)
     THEN /\ lw' = [lw EXCEPT !.calls = @ + 1]
          /\ lres' = [op |-> "SignalInitWrite", err |-> "misuse"]
     ELSE /\ lw' = [lw EXCEPT !.calls = @ + 1, !.goWrite = @ + 1]
          /\ lres' = [op |-> "SignalInitWrite", err |-> "nil"]
  /\ UNCHANGED <<dbVars, trieVars, codecVars, memVars, wwVars, lkVars, ctVars, extVars>>

\* a goroutine of SignalInitWrite runs writeLog; one at a time holds the slot of
\* writeCompleted and the mutex of the WAL
RunWriteLog(ok) ==
  /\ lw.goWrite > 0
  /\ lw' = [writeLog(lw, ok) EXCEPT !.goWrite = @ - 1]
  /\ lres' = NoRes
  /\ UNCHANGED <<dbVars, trieVars, codecVars, memVars, wwVars, lkVars, ctVars, extVars>>

(* ---------------------- window writer operations ----------------------- *)
\* the lists of window entries handed to append: seq 0 and repeated seqs included
EntryLists ==
  LET es == {winEntry(q, 0) : q \in 0..MaxSeq}
  IN  {<<e>> : e \in es} \cup {<<e, f>> : e \in es, f \in es}

\* the window blocks as a reader of the file sees them once the open writer has
\* written: the blocks of the writer over those of the file
Blocks ==
  [b \in DOMAIN winFile \cup DOMAIN ww.writer.winBlocks |->
     IF b \in DOMAIN ww.writer.winBlocks
     THEN Persisted(ww.writer.winBlocks[b]) ELSE winFile[b]]

\* what the rest of the database does not see of the window writer
WindowFrame ==
  <<trieVars, codecVars, memVars, logVars, lkVars, ctVars, extVars, seq, window, mem, wal, index, data, sh,
    sp, syncLockC, closeW, lockpc, res, committed, synced, hist, putSince, errors,
    crashed>>

\* windowWriter.append of the entries es of topic h on the open writer, from the
\* offset that the trie holds for h (0 for a new topic); the trie takes the
\* offset returned
WindowAppend(h, es) ==
  /\ ww.appends < MaxAppends
  /\ LET off == IF h \in DOMAIN trieOffset THEN trieOffset[h] ELSE 0
         a == append(ww.writer, winFile, h, off, es, now)
     IN  /\ ww' = [writer |-> a.writer, appends |-> ww.appends + 1,
                   last |-> [op |-> "append", topicHash |-> h, entries |-> es,
                             off |-> off, newOff |-> a.newOff, before |-> Blocks,
                             windowIdx |-> windowIdx, now |-> now]]
         /\ windowIdx' = a.writer.windowIdx
         /\ trieOffset' = MapPut(trieOffset, h, a.newOff)
  /\ UNCHANGED <<WindowFrame, now, winFile>>

\* windowWriter.write, after which the writer is dropped and a new one is made
WindowWrite ==
  /\ ww.writer.winBlocks # <<>>
  /\ winFile' = write(ww.writer, winFile).file
  /\ ww' = [ww EXCEPT !.writer = newWindowWriter(windowIdx), !.last = NoRes]
  /\ UNCHANGED <<WindowFrame, now, windowIdx, trieOffset>>

\* windowWriter.write that fails in a WriteAt after its first loop: the leased
\* blocks are in the file, the others are not, and the writer is kept
WindowWriteErr ==
  /\ \E b \in DOMAIN ww.writer.winBlocks :
       ww.writer.winBlocks[b].dirty /\ ~ww.writer.winBlocks[b].leased
  /\ LET r == writeLeased(ww.writer, winFile)
     IN  /\ winFile' = r.file
         /\ ww' = [ww EXCEPT !.writer = r.writer,
                             !.last = [op |-> "write", err |-> TRUE]]
  /\ UNCHANGED <<WindowFrame, now, windowIdx, trieOffset>>

\* windowWriter.rollback on the open writer
WindowRollback ==
  /\ ww.writer.leasing # <<>>
  /\ ww.last.op # "rollback"
  /\ LET r == rollback(ww.writer, winFile)
     IN  /\ winFile' = r.file
         /\ ww' = [ww EXCEPT !.last = [op |-> "rollback", err |-> r.err,
                                       leasing |-> ww.writer.leasing,
                                       before |-> winFile]]
  /\ UNCHANGED <<WindowFrame, now, windowIdx, trieOffset>>

\* windowWriter.append of the entries es of topic h on a new writer, from the
\* offset of a block b of the file, whatever the topic of that block
WindowAppendAt(h, b, es) ==
  /\ ww.appends < MaxAppends
  /\ ww.writer.winBlocks = <<>>
  /\ b \in DOMAIN winFile /\ b > 0
  /\ LET a == append(ww.writer, winFile, h, winBlockOffset(b), es, now)
     IN  /\ ww' = [writer |-> a.writer, appends |-> ww.appends + 1,
                   last |-> [op |-> "appendAt", topicHash |-> h, entries |-> es,
                             off |-> winBlockOffset(b), newOff |-> a.newOff,
                             err |-> a.err, before |-> Blocks,
                             windowIdx |-> windowIdx, now |-> now]]
         /\ windowIdx' = a.writer.windowIdx
         /\ trieOffset' = IF a.err THEN trieOffset ELSE MapPut(trieOffset, h, a.newOff)
  /\ UNCHANGED <<WindowFrame, now, winFile>>

(* ----------------------- lookups on their own -------------------------- *)
\* the second at which the lookups are called; an entry with expiresAt = 1 has
\* expired by then, one with expiresAt = 0 never expires
LookupNow == 2

RECURSIVE LookupEntries(_, _)
\* the lists of n entries with seqs base+1 .. base+n, each expired or not
LookupEntries(base, n) ==
  IF n = 0 THEN {<<>>}
  ELSE {Append(s, winEntry(base + n, x)) :
          s \in LookupEntries(base, n - 1), x \in {0, 1}}

\* the window blocks with seqs above base, of either topic, sealed or not
LookupBlocks(base, nx, cutoffs) ==
  UNION {{[topicHash |-> h, entries |-> es \o ZeroEntries(LookupSlots - n),
           next |-> nx, cutoff |-> c, entryIdx |-> n, dirty |-> FALSE,
           leased |-> FALSE] :
            h \in Hashes, c \in cutoffs, es \in LookupEntries(base, n)} :
           n \in 0..LookupSlots}

\* the shard of topic 1 with the queues fz and en
LookupShard(fz, en) ==
  [friezedEntries |-> [h \in Hashes |-> IF h = 1 THEN fz ELSE <<>>],
   entries |-> [h \in Hashes |-> IF h = 1 THEN en ELSE <<>>]]

\* the inputs of a lookup of topic 1: a chain of two blocks from the offset of
\* block 2, the queues of the shard, a cutoff and a limit
LookupInputs ==
  {[stage |-> "in", fz |-> fz, en |-> en,
    file |-> (0 :> ZeroBlock @@ 1 :> b1 @@ 2 :> b2),
    topicHash |-> 1, off |-> winBlockOffset(2), cutoff |-> c, limit |-> l] :
     fz \in UNION {LookupEntries(2 * LookupSlots, k) : k \in 0..2},
     en \in UNION {LookupEntries(2 * LookupSlots + 2, k) : k \in 0..1},
     b1 \in LookupBlocks(0, 0, {0}),
     b2 \in LookupBlocks(LookupSlots, winBlockOffset(1), {0, 1}),
     c \in {0, LookupNow}, l \in 1..MaxLimit}

InitLookup ==
  /\ InitDb
  /\ InitMem
  /\ codec = NoRes
  /\ lk \in LookupInputs
  /\ it = NoRes

\* timeWindowBucket.ilookup on the input
ILookupCall ==
  /\ lk.stage = "in"
  /\ lk' = [stage |-> "ilookup", in |-> lk,
            out |-> ilookup(LookupShard(lk.fz, lk.en), lk.topicHash, lk.limit,
                            LookupNow)]
  /\ UNCHANGED <<dbVars, trieVars, codecVars, memVars, logVars, wwVars, ctVars, extVars>>

\* timeWindowBucket.lookup on the input
LookupCall ==
  /\ lk.stage = "in"
  /\ lk' = [stage |-> "lookup", in |-> lk,
            out |-> lookup(LookupShard(lk.fz, lk.en), lk.file, lk.topicHash,
                           lk.off, lk.cutoff, lk.limit, LookupNow)]
  /\ UNCHANGED <<dbVars, trieVars, codecVars, memVars, logVars, wwVars, ctVars, extVars>>

(* --------------------------- trie operations --------------------------- *)
\* Put of a message under topic w, as far as the trie goes: parse, trie.add
TrieAdd(w) ==
  /\ Cardinality(DOMAIN partTrie.summary) < MaxAdds
  /\ w \notin DOMAIN partTrie.summary
  /\ LET p == Parse(w)
     IN  partTrie' = trieAddParts(partTrie, [hash |-> p.hash, offset |-> 0],
                                  p.parts, p.depth)
  /\ tres' = NoRes
  /\ UNCHANGED <<dbVars, codecVars, memVars, logVars, wwVars, lkVars, ctVars, extVars>>

\* Get of topic q, as far as the trie goes: parse, trie.lookup
TrieLookup(q) ==
  /\ LET p == Parse(q)
         tops == trieLookup(partTrie, p.parts, p.depth, p.topicType)
     IN  tres' = [op |-> "lookup", topic |-> q,
                  tops |-> {top.hash : top \in tops}]
  /\ UNCHANGED <<dbVars, partTrie, codecVars, memVars, logVars, wwVars, lkVars, ctVars, extVars>>

\* the offsets given to the trie
TrieOffsets == {0, blockSize}

\* the topics whose offsets are read and written: a topic, one below it, one
\* beside it and a wildcard topic
TrieHashes == {<<"a">>, <<"a", "b">>, <<"b">>, <<"a", "...">>}

\* every part that the summary names is in the tree; a run is not followed past
\* the detaching of such a part, which a path no longer names
Attached(t) == \A h \in DOMAIN t.summary : t.summary[h] \in DOMAIN t.nodes

\* trie.add of topic w with offset o, new or added before
TrieAddAt(w, o) ==
  /\ Attached(partTrie)
  /\ w \in DOMAIN partTrie.summary \/ Cardinality(DOMAIN partTrie.summary) < MaxAdds
  /\ LET p == Parse(w)
     IN  partTrie' = trieAddParts(partTrie, [hash |-> p.hash, offset |-> o],
                                  p.parts, p.depth)
  /\ tres' = [op |-> "add", topic |-> w, off |-> o, ok |-> TRUE,
              before |-> partTrie]
  /\ UNCHANGED <<dbVars, codecVars, memVars, logVars, wwVars, lkVars, ctVars, extVars>>

\* trie.getOffset of the hash of topic w
TrieGetOffset(w) ==
  /\ LET r == trieGetOffset(partTrie, w)
     IN  tres' = [op |-> "getOffset", topic |-> w, off |-> r.off, ok |-> r.ok,
                  before |-> partTrie]
  /\ UNCHANGED <<dbVars, partTrie, codecVars, memVars, logVars, wwVars, lkVars, ctVars, extVars>>

\* trie.setOffset of the hash of topic w to o
TrieSetOffset(w, o) ==
  /\ LET r == trieSetOffset(partTrie, [hash |-> w, offset |-> o])
     IN  /\ partTrie' = r.t
         /\ tres' = [op |-> "setOffset", topic |-> w, off |-> o, ok |-> r.ok,
                     before |-> partTrie]
  /\ UNCHANGED <<dbVars, codecVars, memVars, logVars, wwVars, lkVars, ctVars, extVars>>

\* trie.remove of the hash of topic w
TrieRemove(w) ==
  /\ Attached(partTrie)
  /\ w \in DOMAIN partTrie.summary
  /\ partTrie' = trieRemove(partTrie, w)
  /\ tres' = [op |-> "remove", topic |-> w, ok |-> TRUE, before |-> partTrie]
  /\ UNCHANGED <<dbVars, codecVars, memVars, logVars, wwVars, lkVars, ctVars, extVars>>

(* ---------------------- concurrent trie operations -------------------- *)
\* add of topic w by goroutine g: the mutex of the hash is taken; the mutexes of
\* two hashes are taken to be two
AddStart(g, w) ==
  /\ ct.go[g].pc = "idle"
  /\ \A o \in TrieProcs : ct.go[o].pc # "idle" => ct.go[o].topic # w
  /\ ct' = [ct EXCEPT !.go[g] =
              [pc |-> "check", topic |-> w, parts |-> Parse(w).parts,
               depth |-> Parse(w).depth, curr |-> 1, i |-> 1]]
  /\ UNCHANGED <<dbVars, trieVars, codecVars, memVars, logVars, wwVars, lkVars, extVars>>

\* the test of the summary, made with the mutex of the hash alone
AddCheck(g) ==
  /\ ct.go[g].pc = "check"
  /\ LET a == ct.go[g]
     IN  ct' = [ct EXCEPT !.unlocked = TRUE,
                          !.go[g].pc = IF a.topic \in DOMAIN ct.summary THEN "done"
                                       ELSE AfterPart(a, 1)]
  /\ UNCHANGED <<dbVars, trieVars, codecVars, memVars, logVars, wwVars, lkVars, extVars>>

\* the read of curr.children[k] under RLock
AddRead(g) ==
  /\ ct.go[g].pc = "read"
  /\ LET a == ct.go[g]
         k == a.parts[a.i]
     IN  IF k \in DOMAIN ct.parts[a.curr].children
         THEN ct' = [ct EXCEPT !.go[g].curr = ct.parts[a.curr].children[k],
                               !.go[g].i = a.i + 1,
                               !.go[g].pc = AfterPart(a, a.i + 1)]
         ELSE ct' = [ct EXCEPT !.go[g].pc = "link"]
  /\ UNCHANGED <<dbVars, trieVars, codecVars, memVars, logVars, wwVars, lkVars, extVars>>

\* a new child is made and put in curr.children[k] under Lock
AddLink(g) ==
  /\ ct.go[g].pc = "link"
  /\ LET a == ct.go[g]
         k == a.parts[a.i]
         child == Len(ct.parts) + 1
     IN  ct' = [ct EXCEPT
                  !.parts = Append([@ EXCEPT ![a.curr].children = MapPut(@, k, child)],
                                   newPart(k, a.curr)),
                  !.go[g].curr = child,
                  !.go[g].i = a.i + 1,
                  !.go[g].pc = AfterPart(a, a.i + 1)]
  /\ UNCHANGED <<dbVars, trieVars, codecVars, memVars, logVars, wwVars, lkVars, extVars>>

\* the topic goes into curr.topics and curr into the summary under Lock; the
\* depth of curr is set
AddFinal(g) ==
  /\ ct.go[g].pc = "final"
  /\ LET a == ct.go[g]
     IN  ct' = [ct EXCEPT
                  !.parts[a.curr].topics = addUnique(@, [hash |-> a.topic, offset |-> 0]),
                  !.parts[a.curr].depth = a.depth,
                  !.summary = MapPut(@, a.topic, a.curr),
                  !.go[g].pc = "done"]
  /\ UNCHANGED <<dbVars, trieVars, codecVars, memVars, logVars, wwVars, lkVars, extVars>>

(* ---------------------------- specification ---------------------------- *)
\* the steps of a Sync call of goroutine p whose I/O succeeds
SyncStep(p) ==
  \/ SyncAcquire(p)
  \/ SyncStart(p)
  \/ SyncShard(p)
  \/ SyncTopic(p)
  \/ SyncFlush(p, 0)
  \/ SyncSignal(p)
  \/ SyncReset(p)
  \/ SyncAfter(p)
  \/ SyncRelease(p)

\* the steps of a Sync call of goroutine p that meet an I/O error
SyncErrStep(p) ==
  \/ \E k \in 1..Len(FlushSteps) : SyncFlush(p, k)
  \/ SyncFail(p)
  \/ SyncUnfreeze(p)
  \/ \E ok \in BOOLEAN : SyncRecover(p, ok)

\* Put and Get of messages that never expire against the background syncer
Next ==
  \/ \E h \in Hashes : Put(h, 0)
  \/ \E h \in Hashes, limit \in 1..MaxLimit : Get(h, limit, 0)
  \/ SyncStep("syncer")

Spec == Init /\ [][Next]_vars

\* Puts whose seq is allocated before their entry reaches the time window,
\* beside the syncer; the ticker keeps calling Sync and every Put runs to its end
NextFlush ==
  \/ \E h \in Hashes : PutSeq(h)
  \/ PutAdd
  \/ SyncStep("syncer")

\* every step of the Sync of the syncer is taken when it stays possible; the
\* step on a topic is possible whenever the Sync is at a topic, so that the
\* Sync does not stay there for ever
SyncFairness ==
  /\ WF_vars(SyncAcquire("syncer"))
  /\ WF_vars(SyncStart("syncer"))
  /\ WF_vars(SyncShard("syncer"))
  /\ []<>(sp["syncer"].pc # "topic")
  /\ WF_vars(SyncFlush("syncer", 0))
  /\ WF_vars(SyncSignal("syncer"))
  /\ WF_vars(SyncReset("syncer"))
  /\ WF_vars(SyncAfter("syncer"))
  /\ WF_vars(SyncRelease("syncer"))

SpecFlush == Init /\ [][NextFlush]_vars /\ SyncFairness /\ WF_vars(PutAdd)

\* foreachTimeWindow(freeze = true, f) for every f, called as Sync calls it,
\* beside Puts
NextForeach ==
  \/ \E h \in Hashes : Put(h, 0)
  \/ SyncAcquire("syncer")
  \/ SyncStart("syncer")
  \/ SyncShard("syncer")
  \/ \E stop, failed \in BOOLEAN : ForeachCallback("syncer", stop, failed)
  \/ SyncUnfreeze("syncer")
  \/ SyncReset("syncer")
  \/ SyncAfter("syncer")
  \/ \E ok \in BOOLEAN : SyncRecover("syncer", ok)
  \/ SyncRelease("syncer")

SpecForeach == Init /\ [][NextForeach]_vars

\* messages of one topic with a TTL: the clock advances, entries expire
NextExpiry ==
  \/ \E exp \in 0..MaxNow : Put(1, exp)
  \/ Tick
  \/ \E limit \in 1..MaxLimit, cutoff \in 0..now : Get(1, limit, cutoff)
  \/ SyncStep("syncer")

SpecExpiry == Init /\ [][NextExpiry]_vars

\* the goroutines that contend for syncLockC, with I/O errors
NextSync ==
  \/ \E h \in Hashes : Put(h, 0)
  \/ ExpireAcquire
  \/ ExpireRelease
  \/ \E p \in SyncProcs : SyncStep(p) \/ SyncErrStep(p)

SpecSync == Init /\ [][NextSync]_vars

\* topics are added to the trie; the topics looked up are, as in the test of
\* wildcard topics, the topics added and the concrete topics
NextTrie ==
  \/ \E w \in Topics : TrieAdd(w)
  \/ \E q \in ConcreteTopics \cup DOMAIN partTrie.summary : TrieLookup(q)

SpecTrie == Init /\ [][NextTrie]_vars

\* messages of one topic, the background syncer, and a crash followed by a reopen
NextRecovery ==
  \/ Put(1, 0)
  \/ SyncStep("syncer")
  \/ Reopen

SpecRecovery == Init /\ [][NextRecovery]_vars

\* a value of a persisted type is marshalled and unmarshalled
NextCodec ==
  \/ CodecMarshal
  \/ CodecUnmarshal

SpecCodec == InitCodec /\ [][NextCodec]_vars

\* one goroutine sets, removes and gets the keys of a shard of memdb
NextMemdb ==
  \/ \E c \in {x \in MemCalls : x.op \in {"Set", "Remove", "Get"}} : MemCall("g1", c)
  \/ MemReturn("g1", FALSE)

SpecMemdb == Init /\ [][NextMemdb]_vars

\* two goroutines call the methods of memdb on one shard; the shrinker is one of
\* the calls
NextMemRace ==
  \E g \in MemProcs :
    \/ \E c \in MemCalls : MemCall(g, c)
    \/ \E fatal \in BOOLEAN : MemReturn(g, fatal)

SpecMemRace == Init /\ [][NextMemRace]_vars

\* calls of Append and SignalInitWrite on one writer, and its goroutines
NextWriter ==
  \/ \E d \in LogData : WriterAppend(d)
  \/ RunAppend
  \/ SignalInitWrite
  \/ \E ok \in BOOLEAN : RunWriteLog(ok)

SpecWriter == Init /\ [][NextWriter]_vars

\* Append is called on one Writer without waiting for the channels of the
\* earlier calls, and the goroutines of the calls run append side by side
NextAppendRace ==
  \/ \E d \in LogData : WriterAppend(d)
  \/ AppendBegin
  \/ \E i \in 1..MaxCalls :
       \/ AppendCount(i)
       \/ AppendScratch(i)
       \/ AppendSizeRead(i)
       \/ AppendSize(i)
       \/ AppendData(i)

SpecAppendRace == Init /\ [][NextAppendRace]_vars

\* appends to the window writer and writes of it, as the clock advances
NextWindow ==
  \/ \E h \in Hashes, es \in EntryLists : WindowAppend(h, es)
  \/ WindowWrite
  \/ Tick

SpecWindow == Init /\ [][NextWindow]_vars

\* appends to leased blocks, writes that succeed or fail, and rollbacks
NextRollback ==
  \/ \E h \in Hashes, es \in EntryLists : WindowAppend(h, es)
  \/ WindowWrite
  \/ WindowWriteErr
  \/ WindowRollback

SpecRollback == Init /\ [][NextRollback]_vars

\* calls of ilookup and lookup on every input
NextLookup == ILookupCall \/ LookupCall

SpecLookup == InitLookup /\ [][NextLookup]_vars

\* appends from the offset in the trie and from the offset of any block
NextAppendAt ==
  \/ \E h \in Hashes, es \in EntryLists : WindowAppend(h, es)
  \/ WindowWrite
  \/ \E h \in Hashes, b \in 0..MaxAppends, es \in EntryLists : WindowAppendAt(h, b, es)

SpecAppendAt == Init /\ [][NextAppendAt]_vars

\* adds, also of topics added before, and reads and writes of the offsets
NextTrieOps ==
  \/ \E w \in TrieHashes, o \in TrieOffsets : TrieAddAt(w, o)
  \/ \E w \in TrieHashes : TrieGetOffset(w)
  \/ \E w \in TrieHashes, o \in TrieOffsets : TrieSetOffset(w, o)

SpecTrieOps == Init /\ [][NextTrieOps]_vars

\* two goroutines that each add a topic
NextTrieRace ==
  \E g \in TrieProcs :
    \/ \E w \in TrieHashes : AddStart(g, w)
    \/ AddCheck(g)
    \/ AddRead(g)
    \/ AddLink(g)
    \/ AddFinal(g)

SpecTrieRace == Init /\ [][NextTrieRace]_vars

\* adds and removes of topics
NextTrieRemove ==
  \/ \E w \in TrieHashes, o \in TrieOffsets : TrieAddAt(w, o)
  \/ \E w \in TrieHashes : TrieRemove(w)

SpecTrieRemove == Init /\ [][NextTrieRemove]_vars

\* Set and Free by one goroutine, and the ticks of the drain loop
NextDrain ==
  \/ \E c \in {x \in MemCalls : x.op \in {"Set", "Free"}} : MemCall("g1", c)
  \/ MemReturn("g1", FALSE)
  \/ DrainTick

SpecDrain == Init /\ [][NextDrain]_vars

\* Set, Remove, Free and Get by one goroutine, and the ticks of the drain loop
NextShrink ==
  \/ \E c \in {x \in MemCalls : x.op \in {"Set", "Remove", "Free", "Get"}} :
       MemCallUpTo("g1", c, ShrinkRecords)
  \/ MemReturn("g1", FALSE)
  \/ DrainTick

SpecShrink == Init /\ [][NextShrink]_vars

\* the loop 'for it.First(); it.Valid(); it.Next()' over every pair of buckets
InitIter ==
  /\ InitDb
  /\ InitMem
  /\ codec = NoRes
  /\ lk = NoRes
  /\ it \in IterInputs

NextIter ==
  \/ \E fail \in Fails : IterFirst(fail)
  \/ \E fail \in Fails : IterNext(fail)

SpecIter == InitIter /\ [][NextIter]_vars

\* a connection that routes to the nodes that the ring gives, and then ends
NextCluster ==
  \/ \E n \in ClusterNodes \cup {thisNodeName} : Rehash(n)
  \/ RouteToContract
  \/ \E first \in ClusterNodes, up \in SUBSET ClusterNodes : ConnGone(first, up)

SpecCluster == Init /\ [][NextCluster]_vars

\* Open has returned: the goroutine of drain, the ticker, the Sets and Frees of
\* one goroutine up to the call of Close, and Close
NextClose ==
  \/ /\ md.close = "idle"
     /\ \E c \in {x \in MemCalls : x.op \in {"Set", "Free"}} : MemCall("g1", c)
  \/ MemReturn("g1", FALSE)
  \/ DrainBegin
  \/ TickerFire
  \/ DrainSelectTick
  \/ DrainSelectClose
  \/ CloseSignal
  \/ CloseTables
  \/ CloseWait

SpecClose == Init /\ [][NextClose]_vars

\* Puts, a Sync that reads and frees the records of its snapshot, and the ticks
\* of the drain loop between its steps
NextSyncDrain ==
  \/ \E d \in MemData : PutMem(d)
  \/ SyncSnapshot
  \/ \E k \in 1..ShrinkRecords : SyncMemGet(k)
  \/ SyncMemFree
  \/ DrainTick

SpecSyncDrain == Init /\ [][NextSyncDrain]_vars

(* ------------------------------- claims --------------------------------- *)
Range(f) == {f[k] : k \in DOMAIN f}

\* the committed seqs of topic h whose expiry is 0 or later than second t
LiveSeqs(h, t) ==
  {s \in DOMAIN committed :
     /\ committed[s].topicHash = h
     /\ committed[s].expiresAt = 0 \/ committed[s].expiresAt > t}

\* C1: every entry put to a topic before a Sync that completed without error is
\* returned by every later Get of the topic whose limit is at least the number of
\* live entries of the topic, as long as the entry has not expired
C1_SyncedEntriesAreReturned ==
  res.op = "get" =>
    \A s \in synced \cap LiveSeqs(res.topicHash, now) :
      res.limit >= Cardinality(LiveSeqs(res.topicHash, now)) =>
        Payload(winEntry(s, committed[s].expiresAt)) \in Range(res.values)

\* C2: in the result of a Get, the payload of a later entry of the topic comes
\* before the payload of an earlier one
C2_ReverseTimeOrder ==
  res.op = "get" =>
    \A i, j \in 1..Len(res.values) :
      res.values[i] < res.values[j] => j < i

\* the number of window entries of topic h that the queues of its shard and the
\* blocks of the window file hold, an entry in both counted twice
TopicCopies(h) ==
  LET wb == window[FindBlock(h)]
      blocks == {b \in DOMAIN winFile : winFile[b].topicHash = h}
      RECURSIVE Sum(_)
      Sum(B) == IF B = {} THEN 0
                ELSE LET b == CHOOSE x \in B : TRUE
                     IN  winFile[b].entryIdx + Sum(B \ {b})
  IN  Len(wb.entries[h]) + Len(wb.friezedEntries[h]) + Sum(blocks)

\* C3: once add has returned for an entry that has not expired, every lookup of
\* its topic hash returns the entry, whatever step a concurrent Sync is at, when
\* the limit is sufficient: at least the number of entries of the topic in the
\* queues and in the window file
C3_ReadYourWrites ==
  res.op = "get" =>
    \A s \in LiveSeqs(res.topicHash, now) :
      res.limit >= TopicCopies(res.topicHash) =>
        \E k \in 1..Len(res.winEntries) : res.winEntries[k].seq = s

\* the seqs that the blocks of the window file hold
WindowSeqs ==
  UNION {SeqsOf(SubSeq(winFile[b].entries, 1, winFile[b].entryIdx)) :
           b \in DOMAIN winFile}

Durable(s) == s \in index /\ s \in data /\ s \in WindowSeqs

\* C4: in every state every committed entry is in memdb with its log written, or
\* in the index, data and window files with its log applied
C4_WrittenOrApplied ==
  \A s \in DOMAIN committed :
    \/ s \in mem /\ wal[s] = "logWritten"
    \/ Durable(s) /\ wal[s] = "logApplied"

\* C6: a Sync that starts with no Put since the previous startSync of its handle
\* finds lastSyncSeq equal to the current seq, returns from startSync and touches
\* no shard, file, trie offset or log
C6_SecondSyncIsNoOp ==
  /\ \A p \in SyncProcs :
       sp[p].pc = "start" /\ ~putSince[p] => sh[p].lastSyncSeq = seq
  /\ hist.quiet => hist.noop /\ ~hist.touched /\ hist.steps = <<>>

\* a Sync that found nothing to do after an earlier Sync of the handle flushed
C6_Witness ==
  /\ hist.quiet
  /\ hist.noop
  /\ sp["syncer"].pc = "release"
  /\ index # {}

\* C5: every call of SignalLogApplied comes after newBlock, blockWriter.write,
\* dataWriter.write, the header write, index.Sync and data.Sync of the same flush,
\* all without error; a flush with a failed step does not call it
C5_SignalAfterFlush ==
  /\ \A p \in SyncProcs : sp[p].pc = "signal" => hist.steps = FlushSteps
  /\ \A n \in 1..Len(hist.steps) :
       hist.steps[n] = "SignalLogApplied" =>
         SubSeq(hist.steps, 1, n - 1) = FlushSteps

\* a flush that signalled, in a Sync where an earlier flush had failed
C5_Witness ==
  /\ errors = 1
  /\ hist.firstErr.at \in Range(FlushSteps)
  /\ hist.steps = FlushSteps \o <<"SignalLogApplied">>

\* C7 as stated: when the pipeline failed, the finished Sync returns the first
\* error of the pipeline
C7_ReturnsFirstError ==
  \A p \in SyncProcs :
    sp[p].pc = "finish" /\ ~sp[p].panicking /\ hist.firstErr # NoErr =>
      sp[p].ret = hist.firstErr

\* C7 amended: when the pipeline failed, foreachTimeWindow hands an error to Sync,
\* Sync runs startRecovery and returns nil when recovery succeeded; it panics
\* when recovery failed
C7_ErrorRecoversOrPanics ==
  \A p \in SyncProcs :
    sp[p].pc = "finish" /\ hist.firstErr # NoErr =>
      /\ sp[p].err # NoErr
      /\ IF sp[p].panicking
         THEN ~hist.recovered
         ELSE hist.recovered /\ sp[p].ret = NoErr

\* a Sync whose flush failed, recovered, about to return
C7_Witness ==
  \E p \in SyncProcs :
    /\ sp[p].pc = "finish"
    /\ hist.firstErr.at = "index.Sync"
    /\ hist.recovered
    /\ sp[p].ret = NoErr

\* the goroutines inside the body of Sync or ExpireOldEntries
Holders == {p \in LockProcs : lockpc[p] = "in"}

\* C8: at most one goroutine is inside the body of Sync or ExpireOldEntries, the
\* slot of syncLockC is taken exactly while one is, and it is free again after
\* every exit of Sync, the panic included
C8_MutualExclusion ==
  /\ Cardinality(Holders) <= 1
  /\ syncLockC = Cardinality(Holders)
  /\ \A p \in SyncProcs : lockpc[p] = "idle" <=> sp[p].pc = "idle"

\* a Sync has panicked after a failed recovery and its deferred function has
\* released the slot, after a Sync of the caller's handle had passed startSync
C8_Witness ==
  /\ crashed
  /\ Holders = {}
  /\ syncLockC = 0
  /\ sh["caller"].lastSyncSeq > 0

\* C10: a lookup returns no entry whose expiresAt is non-zero and <= now; what it
\* hands to addExpiry is expired and never has expiresAt = 0; with a limit that
\* covers the queues of the shard, every expired entry of the queues is handed over
C10_NoExpiredReturned ==
  res.op = "get" =>
    /\ \A k \in 1..Len(res.winEntries) :
         res.winEntries[k].expiresAt = 0 \/ res.winEntries[k].expiresAt > now
    /\ \A k \in 1..Len(res.expired) :
         res.expired[k].expiresAt # 0 /\ res.expired[k].expiresAt <= now
    /\ LET wb == window[FindBlock(res.topicHash)]
           q == wb.friezedEntries[res.topicHash] \o wb.entries[res.topicHash]
       IN  res.limit >= Len(q) =>
             \A k \in 1..Len(q) :
               (q[k].expiresAt # 0 /\ q[k].expiresAt <= now) =>
                 q[k] \in Range(res.expired)

\* a Get that met a live and an expired entry in the queues and an expired one in
\* a block of the window file
C10_Witness ==
  /\ res.op = "get"
  /\ Len(res.winEntries) > 0
  /\ Len(res.expired) > 1
  /\ winFile # <<>>
  /\ \E k \in 1..Len(res.expired) : res.expired[k].seq \in WindowSeqs

RECURSIVE Matches(_, _)
\* the wildcard topic w matches the concrete topic t: a literal matches itself,
\* "*" one level, "..." the rest of t, which may be empty
Matches(w, t) ==
  IF w = <<>> THEN t = <<>>
  ELSE IF Head(w) = "..." THEN TRUE
  ELSE IF t = <<>> THEN FALSE
  ELSE (Head(w) = "*" \/ Head(w) = Head(t)) /\ Matches(Tail(w), Tail(t))

\* C9: a topic w in the trie is found by the lookup of w itself and by the lookup
\* of every concrete topic that w matches, and by the lookup of no concrete topic
\* that it does not match
C9_WildcardLookup ==
  tres.op = "lookup" =>
    \A w \in DOMAIN partTrie.summary :
      /\ tres.topic = w => w \in tres.tops
      /\ tres.topic \in ConcreteTopics =>
           (w \in tres.tops <=> Matches(w, tres.topic))

RECURSIVE ChainFrom(_, _, _)
\* the indexes of the blocks that following next from offset off visits, newest
\* first; fuel bounds the walk by the number of blocks of the file
ChainFrom(file, off, fuel) ==
  IF fuel = 0 \/ ~ReadOk(file, off) THEN <<>>
  ELSE LET b == ReadBlock(file, off)
       IN  IF b.next = 0 THEN <<off \div blockSize>>
           ELSE <<off \div blockSize>> \o ChainFrom(file, b.next, fuel - 1)

\* the chain of blocks of topic h: from the offset that the trie holds for h
Chain(h) ==
  IF h \in DOMAIN trieOffset
  THEN ChainFrom(winFile, trieOffset[h], Cardinality(DOMAIN winFile))
  ELSE <<>>

\* the number of live slots of the blocks of chain c that hold seq s
Copies(c, s) ==
  Cardinality({<<k, i>> \in (1..Len(c)) \X (1..seqsPerWindowBlock) :
                 /\ i <= winFile[c[k]].entryIdx
                 /\ winFile[c[k]].entries[i].seq = s})

\* C11: no seq is in two slots of the chain of window blocks of its topic, also
\* when entries already written to the window file are replayed from the log
\* after a crash and synced again
C11_NoDuplicateAfterReplay ==
  \A h \in Hashes : \A s \in DOMAIN committed : Copies(Chain(h), s) <= 1

\* C12: UnmarshalBinary of the bytes of MarshalBinary gives back every persisted
\* field of a winBlock, a logInfo and a header; the bytes have the size of the
\* record; the flags dirty and leased of the winBlock read back are false
C12_RoundTrip ==
  /\ codec.op = "winBlock" /\ codec.stage = "out" =>
       /\ Len(codec.buf) = blockSize
       /\ codec.out = Persisted(codec.in)
       /\ ~codec.out.dirty /\ ~codec.out.leased
  /\ codec.op = "logInfo" /\ codec.stage = "out" =>
       /\ Len(codec.buf) = logHeaderSize
       /\ codec.out = codec.in
  /\ codec.op = "header" /\ codec.stage = "out" =>
       /\ Len(codec.buf) = headerSize
       /\ codec.out = codec.in

\* a dirty, leased block with the largest entryIdx, a negative cutoff and a
\* non-zero entry has been marshalled and read back
C12_Witness ==
  /\ codec.op = "winBlock"
  /\ codec.stage = "out"
  /\ codec.in.dirty /\ codec.in.leased
  /\ codec.in.entryIdx = 65535
  /\ codec.in.cutoff = -1
  /\ codec.in.entries[seqsPerWindowBlock].seq = 2147483647
  /\ codec.out.entries = codec.in.entries

\* C13: while a goroutine is in a method that writes the map or freeOffset of the
\* shard, no other goroutine is inside a method on the shard
C13_WritersAreExclusive ==
  \A g \in MemProcs :
    mgo[g].pc = "in" /\ mgo[g].call.op \in WritesShard =>
      \A o \in MemProcs \ {g} : mgo[o].pc # "in"

\* C15: Get returns the bytes of the most recent Set of the key when no Remove
\* followed it, the error 'entry deleted' when the key was set and then removed,
\* and (nil, nil) when the key was never set; a Remove of a key never set
\* changes nothing
C15_GetReturnsLastSet ==
  /\ \A g \in MemProcs :
       mgo[g].pc = "idle" /\ mgo[g].ret.op = "Get" =>
         LET h == mhist[mgo[g].call.key]
             v == mgo[g].ret.val
         IN  CASE h.op = "Set" -> v = Bytes(h.data)
               [] h.op = "Remove" -> v = Nil("entry deleted")
               [] OTHER -> v = Nil("nil")
  /\ \A k \in MemKeys : mhist[k].op = "none" <=> k \notin DOMAIN cache.m

\* a Get has returned the payload of the second Set of a key whose first Set
\* had another payload
C15_Witness ==
  /\ mgo["g1"].pc = "idle"
  /\ mgo["g1"].ret.op = "Get"
  /\ mgo["g1"].ret.val = Bytes(<<7>>)
  /\ DOMAIN cache.m = {mgo["g1"].call.key}
  /\ cache.m[mgo["g1"].call.key] = 4
  /\ Uint(cache.data, 0, 4) = 4

\* C14: the buffered frames of a writer are handed to wal.put at most once
C14_PutAtMostOnce == lw.puts <= 1

\* C16: while a shard is frozen an add goes to friezedEntries only, and neither
\* the entries of the shard nor the snapshot given to the callback change; when
\* the callback succeeded the entries after the unfreeze are the arrivals during
\* the freeze in arrival order; when it failed they are the snapshot followed by
\* the arrivals; a shard that is not frozen has no frozen entries
C16_FreezeProtocol ==
  [][\A i \in Shards :
       LET wb == window[i]
           wb2 == window'[i]
           at(pcs) == {p \in SyncProcs : sp[p].pc \in pcs /\ sp[p].i = i}
       IN  /\ ~wb.freezed => wb.friezedEntries = EmptyQueues
           /\ wb.freezed /\ wb2.freezed =>
                /\ wb2.entries = wb.entries
                /\ \A p \in at({"topic", "flush", "signal"}) :
                     sp'[p].wEntries = sp[p].wEntries
                /\ \A h \in Hashes :
                     wb2.friezedEntries[h] =
                       IF seq' = seq + 1 /\ committed'[seq'].topicHash = h
                          /\ FindBlock(h) = i
                       THEN Append(wb.friezedEntries[h],
                                   winEntry(seq', committed'[seq'].expiresAt))
                       ELSE wb.friezedEntries[h]
           /\ wb.freezed /\ ~wb2.freezed =>
                /\ wb2.friezedEntries = EmptyQueues
                /\ \A p \in at({"reset"}) : wb2.entries = wb.friezedEntries
                /\ \A p \in at({"unfreeze"}) : \A h \in Hashes :
                     wb2.entries[h] = sp[p].wEntries[h] \o wb.friezedEntries[h]
                /\ at({"reset", "unfreeze"}) # {}]_vars

\* the callback has succeeded on the snapshot of a topic of a frozen shard, and
\* an entry of the topic has arrived during the freeze
C16_Witness ==
  \E p \in SyncProcs : \E h \in Hashes :
    LET wb == window[sp[p].i]
    IN  /\ sp[p].pc = "reset"
        /\ wb.freezed
        /\ sp[p].wEntries[h] # <<>>
        /\ wb.entries[h] = sp[p].wEntries[h]
        /\ wb.friezedEntries[h] # <<>>
        /\ sp[p].wEntries[h][1].seq \in index

\* C17: the next of every window block is 0 or the offset of a block of the same
\* topic hash with a strictly smaller index, so no chain has a cycle
C17_NextIsOlderSameTopic ==
  \A b \in DOMAIN Blocks :
    Blocks[b].next # 0 =>
      \E c \in DOMAIN Blocks :
        /\ c < b
        /\ Blocks[b].next = winBlockOffset(c)
        /\ Blocks[c].topicHash = Blocks[b].topicHash

\* a block whose next is the offset of an older, full block of its topic, other
\* than the first block of the file
C17_Witness ==
  \E b \in DOMAIN winFile :
    /\ winFile[b].next > 0
    /\ winFile[winFile[b].next \div blockSize].entryIdx = seqsPerWindowBlock
    /\ winFile[b].entryIdx > 0

\* the seqs in the live slots of block b of the window
LiveSlotSeqs(b) == {Blocks[b].entries[i].seq : i \in 1..Blocks[b].entryIdx}

\* the blocks that the walk of lookup visits for topic h: the chain from the
\* offset that the trie holds for h
Reachable(h) ==
  IF h \in DOMAIN trieOffset
  THEN Range(ChainFrom(Blocks, trieOffset[h], Cardinality(DOMAIN Blocks)))
  ELSE {}

\* C18: every entry in a block of topic h is in a block of the chain that starts
\* at the offset the trie holds for h
C18_AppendedIsReachable ==
  \A h \in Hashes : \A b \in DOMAIN Blocks :
    Blocks[b].topicHash = h => LiveSlotSeqs(b) \subseteq UNION {LiveSlotSeqs(c) : c \in Reachable(h)}

\* the blocks of topic h, and the number of entries appended to them
TopicBlocks(h) == {b \in DOMAIN Blocks : Blocks[b].topicHash = h}

RECURSIVE SumEntryIdx(_)
SumEntryIdx(bs) ==
  IF bs = {} THEN 0
  ELSE LET b == CHOOSE x \in bs : TRUE
       IN  Blocks[b].entryIdx + SumEntryIdx(bs \ {b})

CeilDiv(n, d) == (n + d - 1) \div d

\* the blocks that the append that has just returned has allocated
Allocated == {b \in DOMAIN Blocks : b > ww.last.windowIdx}

\* C19: the walk from the offset the trie holds for a topic with count > 0
\* entries reads at most ceil(count / seqsPerWindowBlock) blocks; no entryIdx is above
\* seqsPerWindowBlock; every block of a topic but its newest one, at the offset in
\* the trie, is full; a block allocated after the first one of its topic has the
\* offset of the block it follows as next, and append has stamped that block
\* with the second of the call
C19_ChainIsShort ==
  /\ \A b \in DOMAIN Blocks : Blocks[b].entryIdx <= seqsPerWindowBlock
  /\ \A h \in DOMAIN trieOffset :
       /\ SumEntryIdx(TopicBlocks(h)) > 0 =>
            Cardinality(Reachable(h))
              <= CeilDiv(SumEntryIdx(TopicBlocks(h)), seqsPerWindowBlock)
       /\ \A b \in TopicBlocks(h) :
            winBlockOffset(b) # trieOffset[h] =>
              /\ Blocks[b].entryIdx = seqsPerWindowBlock
              /\ \E c \in TopicBlocks(h) : Blocks[c].next = winBlockOffset(b)
  /\ ww.last.op = "append" =>
       \A b \in Allocated :
         Blocks[b].next # 0 => Blocks[Blocks[b].next \div blockSize].cutoff = ww.last.now

\* the fields of a window block that are written to the file
Stored(b) ==
  [topicHash |-> b.topicHash, entries |-> b.entries, next |-> b.next,
   cutoff |-> b.cutoff, entryIdx |-> b.entryIdx]

\* the append that has just returned was given, at the offset of a block of the
\* topic, only entries that are in that block already or have seq 0
OnlyPresent ==
  /\ ww.last.op = "append"
  /\ ww.last.off > 0
  /\ (ww.last.off \div blockSize) \in DOMAIN ww.last.before
  /\ LET b == ww.last.before[ww.last.off \div blockSize]
     IN  /\ b.topicHash = ww.last.topicHash
         /\ \A k \in 1..Len(ww.last.entries) :
              \/ ww.last.entries[k].seq = 0
              \/ \E i \in 1..b.entryIdx : b.entries[i].seq = ww.last.entries[k].seq

\* C20: no block holds a seq in two live slots or seq 0 in a live slot, and an
\* append of entries that the current block holds already leaves the block as
\* it was and returns its offset
C20_NoDuplicateInBlock ==
  /\ \A b \in DOMAIN Blocks : \A i, j \in 1..Blocks[b].entryIdx :
       /\ Blocks[b].entries[i].seq # 0
       /\ i # j => Blocks[b].entries[i].seq # Blocks[b].entries[j].seq
  /\ OnlyPresent =>
       /\ ww.last.newOff = ww.last.off
       /\ DOMAIN Blocks = DOMAIN ww.last.before
       /\ Stored(Blocks[ww.last.off \div blockSize])
            = Stored(ww.last.before[ww.last.off \div blockSize])

\* an append has been given an entry that its block holds already, next to an
\* entry with seq 0, and the block has one free slot
C20_Witness ==
  /\ OnlyPresent
  /\ \E k \in 1..Len(ww.last.entries) : ww.last.entries[k].seq # 0
  /\ \E k \in 1..Len(ww.last.entries) : ww.last.entries[k].seq = 0
  /\ Blocks[ww.last.off \div blockSize].entryIdx < seqsPerWindowBlock

\* the seqs in the live slots of block b of the window file
FileSeqs(b) == {winFile[b].entries[i].seq : i \in 1..winFile[b].entryIdx}

\* C21: after rollback has returned nil, no seq of the leasing map is in a live
\* slot of its block in the window file, and the entryIdx of the block is lower
\* by the number of seqs taken out
C21_RollbackRemovesLeased ==
  (ww.last.op = "rollback" /\ ~ww.last.err) =>
    \A b \in DOMAIN ww.last.leasing :
      /\ Range(ww.last.leasing[b]) \cap FileSeqs(b) = {}
      /\ winFile[b].entryIdx = ww.last.before[b].entryIdx
           - Cardinality({i \in 1..ww.last.before[b].entryIdx :
                            ww.last.before[b].entries[i].seq \in Range(ww.last.leasing[b])})

\* C22: ilookup and lookup return at most limit entries
C22_AtMostLimit ==
  lk.stage \in {"ilookup", "lookup"} =>
    (~lk.out.panic => Len(lk.out.winEntries) <= lk.in.limit)

\* the seqs that the lookup has returned from block b of its input
FromBlock(b) ==
  {lk.out.winEntries[k].seq : k \in 1..Len(lk.out.winEntries)}
    \cap {lk.in.file[b].entries[i].seq : i \in 1..lk.in.file[b].entryIdx}

\* C23: lookup returns entries of a block only if the topicHash of the block is
\* the one asked for; after the first block of another topicHash, and after a
\* block with a cutoff that is not 0 and below the cutoff asked for, no older
\* block gives an entry
C23_StopsAtMismatchAndCutoff ==
  (lk.stage = "lookup" /\ ~lk.out.panic) =>
    /\ \A b \in {1, 2} :
         lk.in.file[b].topicHash # lk.in.topicHash => FromBlock(b) = {}
    /\ lk.in.file[2].topicHash # lk.in.topicHash => FromBlock(1) = {}
    /\ (lk.in.file[2].cutoff # 0 /\ lk.in.file[2].cutoff < lk.in.cutoff)
         => FromBlock(1) = {}

\* a lookup below its limit that took an entry of the newest block, which has a
\* cutoff below the one asked for, and left the live entries of the older block
C23_Witness ==
  /\ lk.stage = "lookup"
  /\ ~lk.out.panic
  /\ Len(lk.out.winEntries) < lk.in.limit
  /\ FromBlock(2) # {}
  /\ lk.in.file[2].cutoff # 0 /\ lk.in.file[2].cutoff < lk.in.cutoff
  /\ lk.in.file[1].topicHash = lk.in.topicHash
  /\ \E i \in 1..lk.in.file[1].entryIdx :
       ~isExpired(lk.in.file[1].entries[i], LookupNow)

\* the append that has just returned has loaded a block of another topic
LoadedOtherTopic ==
  /\ ww.last.op = "appendAt"
  /\ ww.last.before[ww.last.off \div blockSize].topicHash # ww.last.topicHash

\* C24: an append that loads a block of another topicHash from the file returns
\* an error, and the block keeps its topicHash and its entries
C24_MismatchAborts ==
  LoadedOtherTopic =>
    /\ ww.last.err
    /\ Stored(Blocks[ww.last.off \div blockSize])
         = Stored(ww.last.before[ww.last.off \div blockSize])

\* the paths of the nodes of trie t that hold a tuple of hash h, and the number
\* of tuples of h in the node at path p
NodesOf(t, h) ==
  {p \in DOMAIN t.nodes :
     \E i \in 1..Len(t.nodes[p].topics) : t.nodes[p].topics[i].hash = h}

Tuples(t, p, h) ==
  Cardinality({i \in 1..Len(t.nodes[p].topics) : t.nodes[p].topics[i].hash = h})

\* C25: every hash of the summary is in the topics of one node, once, and the
\* summary names that node; an add of a hash that the summary holds returns
\* true and leaves the trie as it was
C25_AddIsIdempotent ==
  /\ \A h \in TrieHashes :
       IF h \in DOMAIN partTrie.summary
       THEN /\ NodesOf(partTrie, h) = {partTrie.summary[h]}
            /\ Tuples(partTrie, partTrie.summary[h], h) = 1
       ELSE NodesOf(partTrie, h) = {}
  /\ (tres.op = "add" /\ tres.topic \in DOMAIN tres.before.summary) =>
       tres.ok /\ partTrie = tres.before

\* a topic has been added a second time, with another offset, next to another
\* topic in the trie
C25_Witness ==
  /\ tres.op = "add"
  /\ tres.topic \in DOMAIN tres.before.summary
  /\ trieGetOffset(tres.before, tres.topic).off # tres.off
  /\ Cardinality(DOMAIN partTrie.summary) = MaxAdds

\* C26: after an add of a hash that the trie holds with another offset,
\* getOffset of the hash returns the offset of that add
C26_AddReplacesOffset ==
  (tres.op = "add" /\ tres.topic \in DOMAIN tres.before.summary) =>
    trieGetOffset(partTrie, tres.topic) = [off |-> tres.off, ok |-> TRUE]

\* C28: a setOffset of a hash of the trie returns true and getOffset then
\* returns its offset, which no call for another hash and no getOffset changes;
\* for a hash that the summary lacks setOffset returns false, getOffset returns
\* ok = false, and the trie stays as it is; the node keeps one tuple of the hash
C28_SetThenGet ==
  [][/\ tres'.op = "setOffset" =>
          IF tres'.topic \in DOMAIN partTrie.summary
          THEN /\ tres'.ok
               /\ trieGetOffset(partTrie', tres'.topic)
                    = [off |-> tres'.off, ok |-> TRUE]
               /\ Tuples(partTrie', partTrie'.summary[tres'.topic], tres'.topic) = 1
          ELSE ~tres'.ok /\ partTrie' = partTrie
     /\ tres'.op = "getOffset" =>
          /\ partTrie' = partTrie
          /\ tres'.ok = (tres'.topic \in DOMAIN partTrie.summary)
          /\ tres' = [tres' EXCEPT !.off = trieGetOffset(partTrie, tres'.topic).off,
                                   !.ok = trieGetOffset(partTrie, tres'.topic).ok]
     /\ \A h \in TrieHashes :
          (tres'.op = "getOffset" \/ tres'.topic # h) =>
            trieGetOffset(partTrie', h) = trieGetOffset(partTrie, h)]_vars

\* a setOffset has changed the offset of a hash of the trie, which holds another
\* topic too
C28_Witness ==
  /\ tres.op = "setOffset"
  /\ tres.ok
  /\ trieGetOffset(tres.before, tres.topic).off # tres.off
  /\ trieGetOffset(partTrie, tres.topic).off = tres.off
  /\ Cardinality(DOMAIN partTrie.summary) = MaxAdds

\* C27: the part of every topic that has been added is at the end of the path
\* of its keys from the root, and no access to the summary or to a map of
\* children is made without the lock of the trie
C27_ConcurrentAddsAreSerialised ==
  /\ \A h \in DOMAIN ct.summary : Walk(ct.parts, 1, Parse(h).parts) = ct.summary[h]
  /\ ~ct.unlocked

\* C29: a remove leaves the root and every part that still holds a topic
\* reachable from the root; the parts it detaches hold no children and no topics
C29_OrphanKeepsTopics ==
  tres.op = "remove" =>
    /\ <<>> \in DOMAIN partTrie.nodes
    /\ \A h \in DOMAIN partTrie.summary : partTrie.summary[h] \in DOMAIN partTrie.nodes
    /\ \A p \in DOMAIN tres.before.nodes \ DOMAIN partTrie.nodes :
         /\ WithoutHash(tres.before.nodes[p].topics, tres.topic) = <<>>
         /\ children(partTrie, p) = {}

\* C30: a drain tick at which the size of memdb is not above 70% of the memSize
\* given to Open changes no arena, map or freeOffset
C30_DrainBelowTargetKeeps ==
  (mgo["g2"].ret.op = "drain" /\ ~aboveTarget(mgo["g2"].ret.size, memSize)) =>
    /\ cache.data = mgo["g2"].ret.before.data
    /\ cache.m = mgo["g2"].ret.before.m
    /\ cache.freeOffset = mgo["g2"].ret.before.freeOffset

\* C31: a shrink keeps every key whose offset was at or above freeOffset, with
\* its offset reduced by freeOffset and the same bytes returned by Get; it
\* removes every key whose offset was below freeOffset; freeOffset is 0
\* afterwards; a key that was removed and not set again is never readable
C31_ShrinkPreservesRetained ==
  /\ (mgo["g2"].ret.op = "drain" /\ mgo["g2"].ret.shrunk) =>
       LET b == mgo["g2"].ret.before
       IN  /\ \A k \in DOMAIN b.m :
                IF b.m[k] >= b.freeOffset
                THEN /\ k \in DOMAIN cache.m
                     /\ cache.m[k] = b.m[k] - b.freeOffset
                     /\ memGet(cache, k) = memGet(b, k)
                ELSE k \notin DOMAIN cache.m
           /\ cache.freeOffset = 0
  /\ \A k \in MemKeys : mhist[k].op = "Remove" => memGet(cache, k).nil

\* a shrink at a non-zero freeOffset has kept a key that Get still reads at its
\* reduced offset, and has dropped a tombstoned key that lay below freeOffset
C31_Witness ==
  /\ mgo["g2"].ret.op = "drain"
  /\ mgo["g2"].ret.shrunk
  /\ LET b == mgo["g2"].ret.before
     IN  /\ b.freeOffset > 0
         /\ \E k \in DOMAIN b.m :
              /\ b.m[k] >= b.freeOffset
              /\ memGet(cache, k) = Bytes(<<7>>)
         /\ \E k \in DOMAIN b.m : b.m[k] = -1 /\ k \notin DOMAIN cache.m

\* C32: Free changes neither the map nor the arena of the shard; it sets
\* freeOffset to the offset of the key when freeOffset is 0, the key is present
\* and its offset is above 33% of the size of the arena, and it leaves
\* freeOffset as it is in every other case, a non-zero freeOffset included
C32_FreeFrame ==
  [][\A g \in MemProcs :
       (/\ mgo[g].pc = "in"
        /\ mgo[g].call.op = "Free"
        /\ mgo'[g].pc = "idle"
        /\ mgo'[g].ret.op = "Free") =>
         LET k == mgo[g].call.key
             sets == /\ cache.freeOffset = 0
                     /\ k \in DOMAIN cache.m
                     /\ 100 * cache.m[k] > 33 * Len(cache.data)
         IN  /\ cache'.m = cache.m
             /\ cache'.data = cache.data
             /\ cache'.freeOffset = IF sets THEN cache.m[k] ELSE cache.freeOffset]_vars

\* a Free of a present key above 33% of the arena has returned while freeOffset
\* held the offset of another key, and has left it there
C32_Witness ==
  /\ mgo["g1"].pc = "idle"
  /\ mgo["g1"].ret.op = "Free"
  /\ mgo["g1"].call.key \in DOMAIN cache.m
  /\ cache.freeOffset > 0
  /\ cache.m[mgo["g1"].call.key] > cache.freeOffset
  /\ 100 * cache.m[mgo["g1"].call.key] > 33 * Len(cache.data)

RECURSIVE FramesOf(_, _)
\* the payloads of the [length][payload] frames that buf holds from off on, or
\* "torn" when the bytes are not a run of whole frames
FramesOf(buf, off) ==
  IF off = Len(buf) THEN <<>>
  ELSE IF off + 4 > Len(buf) THEN "torn"
  ELSE LET l == Uint(buf, off, 4)
       IN  IF l <= 4 \/ off + l > Len(buf) THEN "torn"
           ELSE LET rest == FramesOf(buf, off + l)
                IN  IF rest = "torn" THEN "torn"
                    ELSE <<Slice(buf, off + 4, off + l)>> \o rest

\* the appends with data that have returned
Appended == {i \in DOMAIN lw.run : lw.run[i].d # <<>>}

\* C33: when every Append issued on a Writer has completed, count is the number
\* of the appends with data, logSize is the sum of their frame sizes and the
\* length of the buffer, and the buffer holds one whole frame for each of them;
\* the appends of empty data add nothing
C33_AppendsAreAtomic ==
  (lw.goAppend = <<>> /\ \A i \in DOMAIN lw.run : lw.run[i].pc = "done") =>
    LET fs == FramesOf(lw.buffer, 0)
    IN  /\ lw.count = Cardinality(Appended)
        /\ lw.logSize = 5 * Cardinality(Appended)
        /\ lw.logSize = Len(lw.buffer)
        /\ fs # "torn"
        /\ Len(fs) = Cardinality(Appended)
        /\ \A j \in DOMAIN fs : fs[j] = <<1>>

\* C34: a Sync that passes startSync runs the pipeline over the shards and
\* starts no recovery while it does; at its end startRecovery has run once when
\* some shard reported an error and not at all when none did; the Sync panics
\* exactly when that recovery failed; a Sync that startSync turns away touches
\* no shard; and a goroutine outside Sync holds neither the slot of syncLockC
\* nor a count of the wait group nor the two scratch buffers
C34_SyncCycle ==
  /\ \A p \in SyncProcs :
       /\ sp[p].pc \in {"shard", "topic", "flush", "signal", "unfreeze", "reset",
                        "after"} =>
            /\ sh[p].syncStatusOk
            /\ hist.recoveries = 0
       /\ sp[p].pc = "finish" =>
            /\ hist.touched
            /\ hist.recoveries = IF hist.firstErr # NoErr THEN 1 ELSE 0
            /\ sp[p].panicking <=> (hist.firstErr # NoErr /\ ~hist.recovered)
       /\ sp[p].pc = "release" =>
            /\ ~sh[p].syncStatusOk
            /\ ~hist.touched
            /\ hist.recoveries = 0
       /\ sp[p].pc = "idle" =>
            /\ lockpc[p] = "idle"
            /\ sh[p].rawBuffers = 0
  /\ syncLockC = Cardinality(Holders)
  /\ closeW = Cardinality({p \in SyncProcs : lockpc[p] = "in"})
  /\ crashed => \A p \in SyncProcs : sp[p].pc = "idle"

\* a Sync whose first shard failed in the flush and whose last shard flushed has
\* run the recovery once and is about to return
C34_Witness ==
  \E p \in SyncProcs :
    /\ sp[p].pc = "finish"
    /\ ~sp[p].panicking
    /\ hist.firstErr.shard = 0
    /\ hist.recoveries = 1
    /\ hist.steps = FlushSteps \o <<"SignalLogApplied">>
    /\ sh[p].rawBuffers = 2

\* C35: the record of every seq that waits in the time window or in the
\* snapshot of the running Sync is in the shard of memdb, and no mem.Get of Sync
\* comes back without a record
C35_ShrinkKeepsUnflushed ==
  /\ ms.lost = {}
  /\ \A k \in ms.window \cup (ms.todo \ {ms.cur}) : k \in DOMAIN cache.m

\* the seqs of the entries that have been added to the time window
Added == DOMAIN committed \ {e.seq : e \in pend}

\* C36: with Sync called again and again, every entry that was added to the time
\* window is eventually in the index and data files
C36_AddedIsEventuallyFlushed ==
  \A s \in 1..MaxSeq : (s \in Added) ~> (s \in index /\ s \in data)

\* C37: when foreachTimeWindow has returned, no shard is frozen, no shard holds
\* frozen entries, and the error returned is not nil when f returned an error
\* for some shard
C37_ForeachUnfreezesAndReportsError ==
  \A p \in SyncProcs :
    sp[p].pc = "after" =>
      /\ \A i \in Shards :
           /\ ~window[i].freezed
           /\ window[i].friezedEntries = EmptyQueues
      /\ hist.firstErr # NoErr => sp[p].err # NoErr

\* C38: when Close has returned, the goroutine of drain has exited and
\* shrinkDataTable has not run since the return
C38_CloseWaitsForDrain ==
  md.close = "returned" => (md.drain = "exited" /\ ~md.late)

\* the entries of the buckets that are stored and not expired
LiveIds ==
  {it.buckets[b][i].id : b \in 1..nBuckets, i \in 1..entriesPerBucket} \
    ({0} \cup UNION {{it.buckets[b][i].id : i \in {y \in 1..entriesPerBucket :
                                                     it.buckets[b][y].expired}} :
                     b \in 1..nBuckets})

\* C39: after First or Next, a valid iterator has an item; no entry is given
\* twice; and when the iterator is no longer valid every stored entry that is
\* not expired has been given
C39_IteratorGivesEachOnce ==
  it.op \in {"First", "Next"} =>
    /\ itValid(it) => it.item # 0
    /\ \A i, j \in DOMAIN it.seen : i # j => it.seen[i] # it.seen[j]
    /\ ~itValid(it) => Range(it.seen) = LiveIds

\* C40: once connGone has run, every node of conn.nodes that is in c.nodes and
\* can be reached has been sent the request with ConnGone
C40_ConnGoneInformsEveryNode ==
  cl.gone => (cl.connNodes \cap cl.nodes \cap cl.up) \subseteq cl.informed

====
